---- MODULE Spec2Model ----
(***************************************************************************)
(* A model of src/model.py (YOLOv3 detector): the channel split of the     *)
(* multi-branch convolution, weighted feature fusion, configuration        *)
(* parsing, module-graph construction, conv+batchnorm fusion, darknet      *)
(* weight files, target assignment, the box metrics, the detection head,   *)
(* the forward pass and the loss.                                          *)
(*                                                                         *)
(* Every function of the source is a call frame held in one variable: a    *)
(* record whose fields are the function's locals (named as in the source)  *)
(* and whose pc field is the position in the function.  A frame that is    *)
(* not in use is [pc |-> "idle"].  Tensors are modelled by their channel   *)
(* axis: a tensor is a sequence with one integer per channel.              *)
(***************************************************************************)
EXTENDS Integers, Sequences, FiniteSets, TLC

VARIABLES
    mixconv,    \* _MixConv2d.__init__
    wff,        \* _WeightedFeatureFusion.forward
    parser,     \* parse_model_config
    build,      \* _create_modules
    fuser,      \* Darknet.fuse
    wts,        \* load_darknet_weights, save_darknet_weights, convert_model_weights
    tgt,        \* build_targets
    metric,     \* bbox_iou, wh_iou
    yolo,       \* _YOLOLayer and its forward calls
    aug,        \* Darknet.forward
    fwd,        \* Darknet.forward_once
    loss        \* compute_loss

vars == <<mixconv, wff, parser, build, fuser, wts, tgt, metric, yolo, aug, fwd, loss>>

Idle == [pc |-> "idle"]

\* What each function leaves alone: the frames of the others.
OnlyMix == UNCHANGED <<wff, parser, build, fuser, wts, tgt, metric, yolo, aug, fwd, loss>>
OnlyWff == UNCHANGED <<mixconv, parser, build, fuser, wts, tgt, metric, yolo, aug, fwd, loss>>
OnlyParser == UNCHANGED <<mixconv, wff, build, fuser, wts, tgt, metric, yolo, aug, fwd, loss>>
OnlyBuild == UNCHANGED <<mixconv, wff, parser, fuser, wts, tgt, metric, yolo, aug, fwd, loss>>
OnlyFuser == UNCHANGED <<mixconv, wff, parser, build, wts, tgt, metric, yolo, aug, fwd, loss>>
OnlyWts == UNCHANGED <<mixconv, wff, parser, build, fuser, tgt, metric, yolo, aug, fwd, loss>>
OnlyTgt == UNCHANGED <<mixconv, wff, parser, build, fuser, wts, metric, yolo, aug, fwd, loss>>
OnlyMetric == UNCHANGED <<mixconv, wff, parser, build, fuser, wts, tgt, yolo, aug, fwd, loss>>
OnlyYolo == UNCHANGED <<mixconv, wff, parser, build, fuser, wts, tgt, metric, aug, fwd, loss>>
OnlyAug == UNCHANGED <<mixconv, wff, parser, build, fuser, wts, tgt, metric, yolo, fwd, loss>>
OnlyFwd == UNCHANGED <<mixconv, wff, parser, build, fuser, wts, tgt, metric, yolo, aug, loss>>
OnlyLoss == UNCHANGED <<mixconv, wff, parser, build, fuser, wts, tgt, metric, yolo, aug, fwd>>

MixIdle == mixconv = Idle
WffIdle == wff = Idle
ParserIdle == parser = Idle
BuildIdle == build = Idle
FuserIdle == fuser = Idle
WtsIdle == wts = Idle
TgtIdle == tgt = Idle
MetricIdle == metric = Idle
YoloIdle == yolo = Idle
AugIdle == aug = Idle
FwdIdle == fwd = Idle
LossIdle == loss = Idle
\* The frames of the functions of the forward pass and of the box metrics.
RestIdle == MetricIdle /\ YoloIdle /\ AugIdle /\ FwdIdle /\ LossIdle

(***************************************************************************)
(* Small helpers for Python lists and integer arithmetic.                  *)
(***************************************************************************)
Range(s) == {s[j] : j \in DOMAIN s}

RECURSIVE SumSeq(_)
SumSeq(s) == IF s = <<>> THEN 0 ELSE s[1] + SumSeq(Tail(s))

RECURSIVE ProdSeq(_)
ProdSeq(s) == IF s = <<>> THEN 1 ELSE s[1] * ProdSeq(Tail(s))

\* All sequences over S of length lo..hi.
SeqsOf(S, lo, hi) == UNION {[1..n -> S] : n \in lo..hi}

Min(a, b) == IF a < b THEN a ELSE b
Max(a, b) == IF a > b THEN a ELSE b

(***************************************************************************)
(* _MixConv2d.__init__ : the split of out_channels over the branches.      *)
(***************************************************************************)
MaxGroups == 3
MaxOutChannels == 10
KernelSizes == {1, 3, 5, 7}

\* numpy's round(): a non-negative rational n/d to the nearest integer, ties
\* to the even neighbour.
RoundHalfEven(n, d) ==
    LET q == n \div d
        r == n % d
    IN  IF 2 * r < d THEN q
        ELSE IF 2 * r > d THEN q + 1
        ELSE IF q % 2 = 0 THEN q ELSE q + 1

\* torch.linspace(0, groups - 1E-6, out_channels).floor(): entry j (0-based)
\* is floor(j * (groups - 10^-6) / (out_channels - 1)); one step gives [0].
LinspaceFloor(groups, out_channels) ==
    [j \in 1..out_channels |->
        IF out_channels = 1 THEN 0
        ELSE ((j - 1) * (groups * 1000000 - 1)) \div ((out_channels - 1) * 1000000)]

\* method == "equal_ch": ch[g] = (i == g).sum()
EqualCh(kernel_size_tuple, out_channels) ==
    LET groups == Len(kernel_size_tuple)
        i == LinspaceFloor(groups, out_channels)
    IN  [g \in 1..groups |-> Cardinality({j \in 1..out_channels : i[j] = g - 1})]

\* method == "equal_params": the least-squares solution of a x = b.  Row 0 of a
\* is all ones (sum of x = out_channels) and row r ties x[r-1] k[r-1]^2 to
\* x[r] k[r]^2 cyclically, so the system is consistent and its solution is
\* x[g] = out_channels * (1/k[g]^2) / sum_h (1/k[h]^2); then .round().astype(int).
EqualParams(kernel_size_tuple, out_channels) ==
    LET groups == Len(kernel_size_tuple)
        sq == [g \in 1..groups |-> kernel_size_tuple[g] * kernel_size_tuple[g]]
        others(g) == ProdSeq([h \in 1..groups |-> IF h = g THEN 1 ELSE sq[h]])
        total == SumSeq([g \in 1..groups |-> others(g)])
    IN  [g \in 1..groups |-> RoundHalfEven(out_channels * others(g), total)]

\* The exact solution has a branch at exactly one half: the floating-point
\* solve, not the rounding rule, decides such an input.
EqualParamsTie(kernel_size_tuple, out_channels) ==
    LET groups == Len(kernel_size_tuple)
        sq == [g \in 1..groups |-> kernel_size_tuple[g] * kernel_size_tuple[g]]
        others(g) == ProdSeq([h \in 1..groups |-> IF h = g THEN 1 ELSE sq[h]])
        total == SumSeq([g \in 1..groups |-> others(g)])
    IN  \E g \in 1..groups : 2 * ((out_channels * others(g)) % total) = total

MixSplit(method, kernel_size_tuple, out_channels) ==
    IF method = "equal_ch" THEN EqualCh(kernel_size_tuple, out_channels)
    ELSE EqualParams(kernel_size_tuple, out_channels)

\* nn.ModuleList(*mix_conv2d): ModuleList takes one iterable of modules.  With
\* two or more branches the call has too many positional arguments, with one
\* branch its argument is a Conv2d, which is not iterable: both raise TypeError.
ModuleListStar(n) == IF n = 0 THEN "ok" ELSE "TypeError"

MixInit ==
    \E method \in {"equal_ch", "equal_params"},
       k \in SeqsOf(KernelSizes, 1, MaxGroups),
       c \in 1..MaxOutChannels :
        /\ method = "equal_params" => ~EqualParamsTie(k, c)
        /\ mixconv = [pc |-> "init", method |-> method, kernel_size_tuple |-> k,
                   out_channels |-> c, ch |-> <<>>]

\* lines 273-284
MixConvSplit ==
    /\ mixconv.pc = "init"
    /\ mixconv' = [mixconv EXCEPT
                     !.ch = MixSplit(mixconv.method, mixconv.kernel_size_tuple,
                                     mixconv.out_channels),
                     !.pc = "split"]
    /\ OnlyMix

\* lines 286-295
MixConvBuild ==
    /\ mixconv.pc = "split"
    /\ mixconv' = [mixconv EXCEPT
                     !.pc = IF ModuleListStar(Len(mixconv.ch)) = "ok"
                            THEN "done" ELSE "TypeError"]
    /\ OnlyMix

MixNext == MixConvSplit \/ MixConvBuild

InitMix == MixInit /\ WffIdle /\ ParserIdle /\ BuildIdle /\ FuserIdle /\ WtsIdle /\ TgtIdle /\ RestIdle

SpecMix == InitMix /\ [][MixNext]_vars

\* C10: for every kernel-size list and every total, under both split methods,
\* the per-branch output channel counts are non-negative and sum to
\* out_channels exactly.
MixSplitSumsToTotal ==
    mixconv.pc \in {"split", "done", "TypeError"} =>
        /\ \A g \in DOMAIN mixconv.ch : mixconv.ch[g] >= 0
        /\ SumSeq(mixconv.ch) = mixconv.out_channels

(***************************************************************************)
(* _WeightedFeatureFusion.forward.  A tensor is its channel axis.  With    *)
(* weights, w = sigmoid(self.w) * (2 / n).  The sigmoid is kept in         *)
(* quarters (sigmoid(0) = 1/2 is 2; 1 and 3 stand for sigmoid(-1) and      *)
(* sigmoid(1)), so a weighted value is a numerator over 2 * n.             *)
(***************************************************************************)
MaxChannels == 3
MaxSources == 2

Sigmoid4(w) == 2 + w

\* The source tensor number s (0 is the running tensor x) with c channels:
\* every channel of every tensor holds a value of its own.
TensorOf(s, c) == [j \in 1..c |-> 10 * s + j]

Scale(t, k) == [j \in DOMAIN t |-> t[j] * k]

\* FuseInto without the slice of a wider feature: the sum takes a's width.
FuseIntoNoSlice(x, a, nx) ==
    LET na == Len(a)
    IN  IF nx = na THEN [j \in 1..Len(x) |-> x[j] + a[j]]
        ELSE IF nx > na THEN [j \in 1..Len(x) |-> IF j <= na THEN x[j] + a[j] ELSE x[j]]
        ELSE [j \in 1..na |-> IF j <= Len(x) THEN x[j] + a[j] ELSE a[j]]

\* lines 332-337: add feature a into x, nx the channel count of the input.
FuseInto(x, a, nx) ==
    LET na == Len(a)
    IN  IF nx = na THEN [j \in 1..Len(x) |-> x[j] + a[j]]
        ELSE IF nx > na THEN [j \in 1..Len(x) |-> IF j <= na THEN x[j] + a[j] ELSE x[j]]
        ELSE [j \in 1..Len(x) |-> x[j] + SubSeq(a, 1, nx)[j]]

WffInit ==
    \E nx \in 1..MaxChannels,
       nas \in SeqsOf(1..MaxChannels, 0, MaxSources),
       weight \in BOOLEAN :
       \E w \in [1..(Len(nas) + 1) -> IF weight THEN {-1, 0, 1} ELSE {0}] :
        wff = [pc |-> "weights", weight |-> weight, w |-> w, n |-> Len(nas) + 1,
               x |-> TensorOf(0, nx), x0 |-> TensorOf(0, nx),
               outputs |-> [s \in 1..Len(nas) |-> TensorOf(s, nas[s])],
               nx |-> 0, i |-> 0]

\* lines 321-326
WffWeights ==
    /\ wff.pc = "weights"
    /\ LET x == IF wff.weight THEN Scale(wff.x, Sigmoid4(wff.w[1])) ELSE wff.x
       IN  wff' = [wff EXCEPT !.x = x, !.nx = Len(x),
                              !.pc = IF wff.n - 1 > 0 THEN "loop" ELSE "done"]
    /\ OnlyWff

\* lines 327-337, one iteration of the loop
WffFuse ==
    /\ wff.pc = "loop"
    /\ LET s == wff.i + 1
           a == IF wff.weight THEN Scale(wff.outputs[s], Sigmoid4(wff.w[s + 1]))
                ELSE wff.outputs[s]
       IN  wff' = [wff EXCEPT !.x = FuseInto(wff.x, a, wff.nx), !.i = s,
                              !.pc = IF s < wff.n - 1 THEN "loop" ELSE "done"]
    /\ OnlyWff

WffNext == WffWeights \/ WffFuse

InitWff == WffInit /\ MixIdle /\ ParserIdle /\ BuildIdle /\ FuserIdle /\ WtsIdle /\ TgtIdle /\ RestIdle

SpecWff == InitWff /\ [][WffNext]_vars

\* The weight applied to tensor s (0 the running tensor), as a numerator.
WffWeightOf(s) == IF wff.weight THEN Sigmoid4(wff.w[s + 1]) ELSE 1

\* C9: the result has exactly the channel count of the running tensor x;
\* channel j of the result is channel j of x plus channel j of every source
\* that has a channel j: a wider source gives only its first nx channels, a
\* narrower one is added into the leading channels only.
WffKeepsChannelCount ==
    wff.pc = "done" =>
        /\ Len(wff.x) = Len(wff.x0)
        /\ \A j \in 1..Len(wff.x0) :
             wff.x[j] = WffWeightOf(0) * wff.x0[j]
                        + SumSeq([s \in 1..Len(wff.outputs) |->
                                    IF j <= Len(wff.outputs[s])
                                    THEN WffWeightOf(s) * wff.outputs[s][j] ELSE 0])

\* A 16/24-like case: a source wider than x and a source narrower than x have
\* both been fused.
WffMixedWidthsFused ==
    /\ wff.pc = "done"
    /\ \E s \in DOMAIN wff.outputs : Len(wff.outputs[s]) > Len(wff.x0)
    /\ \E s \in DOMAIN wff.outputs : Len(wff.outputs[s]) < Len(wff.x0)

(***************************************************************************)
(* build_targets and wh_iou.  Normalized target coordinates are tenths     *)
(* (numerators over Den); a grid coordinate x * nx is a numerator over     *)
(* Den.  Anchors are in input pixels; anchor_vec = anchors / stride.       *)
(***************************************************************************)
Den == 10
MaxTargets == 2
MaxClassId == 2

\* .long(): truncation toward zero of the rational n / d (d > 0).
Trunc(n, d) == IF n >= 0 THEN n \div d ELSE -((-n) \div d)

\* Clamp without the clamp: the index is used as truncated.
ClampNone(v, lo, hi) == v

\* clamp_(lo, hi)
Clamp(v, lo, hi) == IF v < lo THEN lo ELSE IF v > hi THEN hi ELSE v

\* WhIou with the union taken as area1 + area2, the intersection counted twice.
WhIouNoInter(anchor, stride, w, h, nx, ny) ==
    LET aw == anchor[1] * Den
        ah == anchor[2] * Den
        tw == w * nx * stride
        th == h * ny * stride
        inter == Min(aw, tw) * Min(ah, th)
    IN  <<inter, aw * ah + tw * th>>

\* wh_iou of one anchor of a head with one target, as <<numerator, denominator>>.
\* anchor_vec is (aw / stride, ah / stride) and gwh is (w * nx / Den, h * ny / Den);
\* both are taken over the common denominator stride * Den.
WhIou(anchor, stride, w, h, nx, ny) ==
    LET aw == anchor[1] * Den
        ah == anchor[2] * Den
        tw == w * nx * stride
        th == h * ny * stride
        inter == Min(aw, tw) * Min(ah, th)
    IN  <<inter, aw * ah + tw * th - inter>>

\* wh_iou(anchors, t[:, 4:6]) > iou_t, iou_t = iou_t_num / Den.  The union is
\* positive, every anchor having positive width and height.
Matches(head, t, iou_t_num) ==
    LET iou == WhIou(head.anchors[t.a], head.stride, t.w, t.h, head.nx, head.ny)
    IN  iou[1] * Den > iou_t_num * iou[2]

\* lines 987-998: one kept (anchor, target) pair.  gi and gj are views of gij,
\* so clamp_ clamps gij in place before tbox reads it.
MatchOf(head, a, t) ==
    LET gx == t.x * head.nx
        gy == t.y * head.ny
        gi == Clamp(Trunc(gx, Den), 0, head.nx - 1)
        gj == Clamp(Trunc(gy, Den), 0, head.ny - 1)
    IN  [b |-> t.image, a |-> a - 1, gj |-> gj, gi |-> gi, c |-> t.class,
         tbox |-> <<gx - gi * Den, gy - gj * Den, t.w * head.nx, t.h * head.ny>>,
         anch |-> head.anchors[a], target |-> t.k]

\* The kept pairs with every target given to the first anchor that matches it
\* only, one match per target at most.
RECURSIVE KeptPairsFirstAnchor(_, _, _, _, _)
KeptPairsFirstAnchor(head, targets, iou_t_num, a, k) ==
    IF a > Len(head.anchors) THEN <<>>
    ELSE IF k > Len(targets) THEN KeptPairsFirstAnchor(head, targets, iou_t_num, a + 1, 1)
    ELSE LET t == [targets[k] EXCEPT !.a = a, !.k = k]
             rest == KeptPairsFirstAnchor(head, targets, iou_t_num, a, k + 1)
             earlier == \E e \in 1..(a - 1) : Matches(head, [t EXCEPT !.a = e], iou_t_num)
         IN  IF Matches(head, t, iou_t_num) /\ ~earlier THEN <<MatchOf(head, a, t)>> \o rest
             ELSE rest

\* at[j], t.repeat(na, 1, 1)[j]: the kept pairs, anchor by anchor and within an
\* anchor in target order.
RECURSIVE KeptPairs(_, _, _, _, _)
KeptPairs(head, targets, iou_t_num, a, k) ==
    IF a > Len(head.anchors) THEN <<>>
    ELSE IF k > Len(targets) THEN KeptPairs(head, targets, iou_t_num, a + 1, 1)
    ELSE LET t == [targets[k] EXCEPT !.a = a, !.k = k]
             rest == KeptPairs(head, targets, iou_t_num, a, k + 1)
         IN  IF Matches(head, t, iou_t_num) THEN <<MatchOf(head, a, t)>> \o rest
             ELSE rest

\* line 999-1000
ClassAssertFails(matches, num_classes) ==
    /\ matches # <<>>
    /\ \E m \in DOMAIN matches : matches[m].c >= num_classes

\* The models: one head of stride 32 on a 416x416 input with the anchors of
\* the yolo layer (13x13 grid), and two heads on a 416 wide, 320 high input.
OneHead == << [anchors |-> <<<<10, 13>>, <<16, 30>>, <<33, 23>>>>, stride |-> 32,
               nx |-> 13, ny |-> 13] >>
TwoHeads == << [anchors |-> <<<<33, 23>>, <<81, 82>>>>, stride |-> 32,
                nx |-> 13, ny |-> 10],
               [anchors |-> <<<<10, 13>>, <<16, 30>>, <<33, 23>>>>, stride |-> 16,
                nx |-> 26, ny |-> 20] >>

\* Target records (image, class, x, y, w, h): centers inside the image, on
\* its right or bottom edge and beyond it.
TargetCenters == {<<5, 5>>, <<10, 5>>, <<5, 12>>, <<0, 10>>}
TargetSizes == {<<1, 1>>, <<2, 2>>}
TargetRecords ==
    {[image |-> 0, class |-> c, x |-> xy[1], y |-> xy[2], w |-> wh[1], h |-> wh[2],
      a |-> 0, k |-> 0] :
        c \in 0..MaxClassId, xy \in TargetCenters, wh \in TargetSizes}

TgtInit ==
    \E heads \in {OneHead, TwoHeads},
       targets \in SeqsOf(TargetRecords, 0, MaxTargets),
       num_classes \in {1, 2},
       iou_t_num \in {1, 2} :
        tgt = [pc |-> "loop", heads |-> heads, targets |-> targets,
               num_classes |-> num_classes, iou_t |-> iou_t_num,
               i |-> 0, indices |-> <<>>]

\* lines 973-1000: one iteration of the loop over the yolo layers
TgtHead ==
    /\ tgt.pc = "loop"
    /\ tgt.i < Len(tgt.heads)
    /\ LET head == tgt.heads[tgt.i + 1]
           kept == KeptPairs(head, tgt.targets, tgt.iou_t, 1, 1)
       IN  tgt' = [tgt EXCEPT
                     !.indices = Append(@, kept),
                     !.i = @ + 1,
                     !.pc = IF ClassAssertFails(kept, tgt.num_classes)
                            THEN "AssertionError" ELSE "loop"]
    /\ OnlyTgt

\* line 1001
TgtReturn ==
    /\ tgt.pc = "loop"
    /\ tgt.i = Len(tgt.heads)
    /\ tgt' = [tgt EXCEPT !.pc = "done"]
    /\ OnlyTgt

TgtNext == TgtHead \/ TgtReturn

InitTgt == TgtInit /\ MixIdle /\ WffIdle /\ ParserIdle /\ BuildIdle /\ FuserIdle /\ WtsIdle /\ RestIdle

SpecTgt == InitTgt /\ [][TgtNext]_vars

\* C4: build_targets fails (AssertionError) whenever some target record carries
\* a class id >= num_classes, matched or not: it never returns for such input.
TgtBadClassNeverReturns ==
    (\E k \in DOMAIN tgt.targets : tgt.targets[k].class >= tgt.num_classes)
        => tgt.pc # "done"

\* The scenario of C6: one class, one head with anchors (10,13), (16,30),
\* (33,23) on a 416x416 input (13x13 grid), one target (0.5, 0.5, 0.2, 0.2) of
\* class 0, and build_targets has returned.
TgtScenarioDone(iou_t_num) ==
    /\ tgt.pc = "done"
    /\ tgt.heads = OneHead
    /\ tgt.num_classes = 1
    /\ tgt.iou_t = iou_t_num
    /\ Len(tgt.targets) = 1
    /\ tgt.targets[1].class = 0
    /\ <<tgt.targets[1].x, tgt.targets[1].y>> = <<5, 5>>
    /\ <<tgt.targets[1].w, tgt.targets[1].h>> = <<2, 2>>

\* C6 as stated: in the scenario with iou_t = 0.2 there is at least one match,
\* and its grid row and column are floor(0.5 * 13) = 6.
TgtScenarioHasMatch ==
    TgtScenarioDone(2) =>
        /\ tgt.indices[1] # <<>>
        /\ \A m \in DOMAIN tgt.indices[1] :
             tgt.indices[1][m].gj = (5 * 13) \div Den /\ tgt.indices[1][m].gi = (5 * 13) \div Den

\* C6 amended: in the scenario with iou_t = 0.2 no match is emitted (the best
\* anchor, (33,23), has IoU 759/6922 with the target); with iou_t = 0.1 exactly
\* one match is emitted, for anchor (33,23), in grid row 6 and grid column 6.
TgtScenarioMatchesOnlyBelowThreshold ==
    /\ TgtScenarioDone(2) => tgt.indices[1] = <<>>
    /\ TgtScenarioDone(1) =>
         /\ Len(tgt.indices[1]) = 1
         /\ tgt.indices[1][1].a = 2
         /\ tgt.indices[1][1].gj = (5 * 13) \div Den
         /\ tgt.indices[1][1].gi = (5 * 13) \div Den

TgtScenarioReached == TgtScenarioDone(1) /\ Len(tgt.indices[1]) = 1

\* C7: every match of every head has its grid row in 0..ny-1 and its grid
\* column in 0..nx-1.
TgtIndicesInGrid ==
    tgt.pc # "idle" =>
        \A i \in DOMAIN tgt.indices : \A m \in DOMAIN tgt.indices[i] :
            /\ tgt.indices[i][m].gj \in 0..(tgt.heads[i].ny - 1)
            /\ tgt.indices[i][m].gi \in 0..(tgt.heads[i].nx - 1)

\* A match of a target whose scaled center is on the grid boundary (x = 1.0)
\* and one of a target beyond it (y = 1.2) have been emitted.
TgtBoundaryTargetMatched ==
    /\ tgt.pc = "done"
    /\ \E i \in DOMAIN tgt.indices : \E m \in DOMAIN tgt.indices[i] :
         tgt.targets[tgt.indices[i][m].target].x * tgt.heads[i].nx = tgt.heads[i].nx * Den
    /\ \E i \in DOMAIN tgt.indices : \E m \in DOMAIN tgt.indices[i] :
         tgt.targets[tgt.indices[i][m].target].y * tgt.heads[i].ny > tgt.heads[i].ny * Den

\* The matches that head i emitted for anchor a (1-based) and target k.
TgtMatchesOfPair(i, a, k) ==
    {m \in DOMAIN tgt.indices[i] :
        tgt.indices[i][m].a = a - 1 /\ tgt.indices[i][m].target = k}

\* C23: for each head, build_targets emits exactly one match for every
\* (anchor, target) pair whose width/height IoU is strictly above iou_t and
\* none for any other pair, and every match carries the anchor index of its
\* pair, the image index and the class of its target and the (width, height)
\* of its anchor.
TgtOneMatchPerPassingPair ==
    \A i \in DOMAIN tgt.indices :
        LET head == tgt.heads[i]
            kept == tgt.indices[i]
        IN  /\ \A a \in DOMAIN head.anchors : \A k \in DOMAIN tgt.targets :
                  LET iou == WhIou(head.anchors[a], head.stride, tgt.targets[k].w,
                                   tgt.targets[k].h, head.nx, head.ny)
                  IN  Cardinality(TgtMatchesOfPair(i, a, k)) =
                          IF iou[1] * Den > tgt.iou_t * iou[2] THEN 1 ELSE 0
            /\ \A m \in DOMAIN kept :
                  /\ kept[m].target \in DOMAIN tgt.targets
                  /\ kept[m].a + 1 \in DOMAIN head.anchors
                  /\ kept[m].b = tgt.targets[kept[m].target].image
                  /\ kept[m].c = tgt.targets[kept[m].target].class
                  /\ kept[m].anch = head.anchors[kept[m].a + 1]

\* build_targets has returned with a target matched by two anchors of a head,
\* an anchor matched by two targets, and a pair that was not matched.
TgtManyToManyMatched ==
    /\ tgt.pc = "done"
    /\ \E i \in DOMAIN tgt.indices :
         /\ \E k \in DOMAIN tgt.targets : \E a1, a2 \in DOMAIN tgt.heads[i].anchors :
              a1 # a2 /\ TgtMatchesOfPair(i, a1, k) # {} /\ TgtMatchesOfPair(i, a2, k) # {}
         /\ \E a \in DOMAIN tgt.heads[i].anchors : \E k1, k2 \in DOMAIN tgt.targets :
              k1 # k2 /\ TgtMatchesOfPair(i, a, k1) # {} /\ TgtMatchesOfPair(i, a, k2) # {}
         /\ \E a \in DOMAIN tgt.heads[i].anchors : \E k \in DOMAIN tgt.targets :
              TgtMatchesOfPair(i, a, k) = {}

(***************************************************************************)
(* parse_model_config.  The file is its list of lines after the blank and  *)
(* comment lines are dropped and the rest stripped: a line is a block      *)
(* header "[type]", a "key=value" line or a line that does not split into  *)
(* two parts at "=".  A block is the set of its keys (values left out).    *)
(***************************************************************************)
MaxLines == 4

\* lines 722-725
supported ==
    {"type", "batch_normalize", "filters", "size", "stride", "pad", "activation",
     "layers", "groups", "from", "mask", "anchors", "classes", "num", "jitter",
     "ignore_thresh", "truth_thresh", "random", "stride_x", "stride_y",
     "weights_type", "weights_normalization", "scale_x_y", "beta_nms", "nms_kind",
     "iou_loss", "iou_normalizer", "cls_normalizer", "iou_thresh", "probability"}

\* The lines of the model: "=1" has the empty key, "momentum=0.9" a key that
\* is not supported.
ConfigLines ==
    {[kind |-> "block", type |-> "net"], [kind |-> "block", type |-> "convolutional"],
     [kind |-> "keyval", key |-> "filters"], [kind |-> "keyval", key |-> "size"],
     [kind |-> "keyval", key |-> "momentum"], [kind |-> "keyval", key |-> ""],
     [kind |-> "malformed"]}

\* Python's truth value of a string.
Truthy(str) == str # ""

\* any(u)
AnyOf(u) == \E x \in u : Truthy(x)

\* lines 727-732: the fields of module_define[1:] that are not supported
Unsupported(module_define) ==
    LET f == UNION {module_define[b] : b \in 2..Len(module_define)}
    IN  {x \in f : x \notin supported}

ParserInit ==
    \E lines \in SeqsOf(ConfigLines, 0, MaxLines) :
        parser = [pc |-> "lines", lines |-> lines, n |-> 0, module_define |-> <<>>]

\* lines 700-719, one iteration of the loop over the lines
ParseLine ==
    /\ parser.pc = "lines"
    /\ parser.n < Len(parser.lines)
    /\ LET line == parser.lines[parser.n + 1]
           md == parser.module_define
       IN  parser' =
             IF line.kind = "block"
             THEN [parser EXCEPT !.n = @ + 1,
                     !.module_define =
                        Append(md, IF line.type = "convolutional"
                                   THEN {"type", "batch_normalize"} ELSE {"type"})]
             ELSE IF line.kind = "malformed"
             THEN [parser EXCEPT !.pc = "ValueError"]
             ELSE IF md = <<>>
             THEN [parser EXCEPT !.pc = "IndexError"]
             ELSE [parser EXCEPT !.n = @ + 1,
                     !.module_define = [md EXCEPT ![Len(md)] = @ \cup {line.key}]]
    /\ OnlyParser

\* lines 721-736
ParseCheck ==
    /\ parser.pc = "lines"
    /\ parser.n = Len(parser.lines)
    /\ parser' = [parser EXCEPT
                    !.pc = IF AnyOf(Unsupported(parser.module_define))
                           THEN "AssertionError" ELSE "done"]
    /\ OnlyParser

ParserNext == ParseLine \/ ParseCheck

InitParser == ParserInit /\ MixIdle /\ WffIdle /\ BuildIdle /\ FuserIdle /\ WtsIdle /\ TgtIdle /\ RestIdle

SpecParser == InitParser /\ [][ParserNext]_vars

\* C5: parse_model_config never returns a record list in which a layer record
\* (a record after the header record) has a field name outside the allow-list.
ParserReturnsOnlySupported ==
    parser.pc = "done" =>
        \A b \in 2..Len(parser.module_define) : parser.module_define[b] \subseteq supported

(***************************************************************************)
(* _create_modules.  module_define is the list of layer records after the  *)
(* header record is popped; a record is a Python dict, here a record with  *)
(* the same keys.  Every record of the model has the keys its type reads,  *)
(* as the blocks of a darknet configuration do.  A module is the record of *)
(* its class name, its children (nn.Sequential) and its layer indices.     *)
(***************************************************************************)
MaxLayers == 3

ConvRecords ==
    {[type |-> "convolutional", batch_normalize |-> 1, filters |-> 2, size |-> <<3>>,
      mixed |-> FALSE, stride |-> 1, pad |-> 1, activation |-> "leaky"],
     [type |-> "convolutional", batch_normalize |-> 0, filters |-> 4, size |-> <<1>>,
      mixed |-> FALSE, stride |-> 1, pad |-> 1, activation |-> "linear"],
     [type |-> "convolutional", batch_normalize |-> 1, filters |-> 4, size |-> <<3, 5>>,
      mixed |-> TRUE, stride |-> 1, pad |-> 1, activation |-> "leaky"],
     [type |-> "convolutional", batch_normalize |-> 1, filters |-> 4, size |-> <<3>>,
      mixed |-> FALSE, stride |-> 1, pad |-> 1, groups |-> 2, activation |-> "leaky"],
     [type |-> "convolutional", batch_normalize |-> 0, filters |-> 18, size |-> <<1>>,
      mixed |-> FALSE, stride |-> 1, pad |-> 1, activation |-> "linear"]}

LayerRecords ==
    ConvRecords \cup
    {[type |-> "BatchNorm2d"],
     [type |-> "maxpool", size |-> 2, stride |-> 1],
     [type |-> "upsample", stride |-> 2],
     [type |-> "route", layers |-> <<-2>>],
     [type |-> "route", layers |-> <<0>>],
     [type |-> "route", layers |-> <<1>>],
     [type |-> "shortcut", from |-> <<-2>>],
     [type |-> "shortcut", from |-> <<1>>],
     [type |-> "yolo", classes |-> 1, mask |-> <<0, 1, 2>>],
     [type |-> "sam"]}

\* Python's list[idx]: the 1-based position of idx in a list of length n, or 0
\* when the index is out of range (IndexError).
PyIndex(idx, n) ==
    IF idx >= 0 /\ idx < n THEN idx + 1
    ELSE IF idx < 0 /\ idx >= -n THEN n + idx + 1
    ELSE 0

\* [i + l if l < 0 else l for l in layers] without the shift of the negative
\* indices.
RoutedIndicesUnshifted(i, layers) == layers

\* [i + l if l < 0 else l for l in layers]
RoutedIndices(i, layers) == [k \in DOMAIN layers |-> IF layers[k] < 0 THEN i + layers[k] ELSE layers[k]]

\* nn.Conv2d(in_channels, out_channels, groups=groups): both channel counts
\* must be divisible by groups.
Conv2dError(in_channels, out_channels, groups) ==
    in_channels % groups # 0 \/ out_channels % groups # 0

\* stride = [32, 16, 8]; stride[yolo_index]
YoloStrides == <<32, 16, 8>>

Seq0 == [name |-> "Sequential", children |-> <<>>, layers |-> <<>>]

\* lines 375-405: the block of a convolutional record
ConvBlock(module, in_channels) ==
    LET bn == module.batch_normalize
        groups == IF "groups" \in DOMAIN module THEN module.groups ELSE 1
        conv == IF module.mixed
                THEN [name |-> "MixConv2d", in_channels |-> in_channels,
                      out_channels |-> module.filters, groups |-> 1, bias |-> bn = 0]
                ELSE [name |-> "Conv2d", in_channels |-> in_channels,
                      out_channels |-> module.filters, groups |-> groups, bias |-> bn = 0,
                      kernel_size |-> module.size[1]]
        norm == IF bn # 0 THEN <<[name |-> "BatchNorm2d", num_features |-> module.filters]>>
                ELSE <<>>
        act == IF module.activation \in {"leaky", "swish", "mish"}
               THEN <<[name |-> "activation"]>> ELSE <<>>
    IN  [Seq0 EXCEPT !.children = <<conv>> \o norm \o act]

\* lines 372-481: the effect of one layer record at position i.  The result is
\* the error raised, if any, and otherwise the module appended, the value of
\* filters after the branch, the indices added to routs and yolo_index.
LayerStep(module, i, output_filters, filters, yolo_index) ==
    LET last == output_filters[Len(output_filters)]
        ok(m, f, r, y) == [error |-> "none", modules |-> m, filters |-> f,
                           routs |-> r, yolo_index |-> y]
        err(e) == [error |-> e, modules |-> Seq0, filters |-> filters,
                   routs |-> <<>>, yolo_index |-> yolo_index]
    IN  CASE module.type = "convolutional" ->
               IF module.mixed
               THEN IF ModuleListStar(Len(module.size)) = "ok"
                    THEN ok(ConvBlock(module, last), module.filters,
                            IF module.batch_normalize # 0 THEN <<>> ELSE <<i>>, yolo_index)
                    ELSE err("TypeError")
               ELSE IF Conv2dError(last, module.filters,
                                   IF "groups" \in DOMAIN module THEN module.groups ELSE 1)
                    THEN err("ValueError")
                    ELSE ok(ConvBlock(module, last), module.filters,
                            IF module.batch_normalize # 0 THEN <<>> ELSE <<i>>, yolo_index)
          [] module.type = "BatchNorm2d" ->
               ok([name |-> "BatchNorm2d", children |-> <<>>, layers |-> <<>>], last,
                  <<>>, yolo_index)
          [] module.type = "maxpool" ->
               ok(IF module.size = 2 /\ module.stride = 1
                  THEN [Seq0 EXCEPT !.children = <<[name |-> "ZeroPad2d"], [name |-> "MaxPool2d"]>>]
                  ELSE [name |-> "MaxPool2d", children |-> <<>>, layers |-> <<>>],
                  filters, <<>>, yolo_index)
          [] module.type = "upsample" ->
               ok([name |-> "Upsample", children |-> <<>>, layers |-> <<>>], filters,
                  <<>>, yolo_index)
          [] module.type = "route" ->
               LET layers == module.layers
                   at(l) == PyIndex(IF l > 0 THEN l + 1 ELSE l, Len(output_filters))
               IN  IF \E k \in DOMAIN layers : at(layers[k]) = 0
                   THEN err("IndexError")
                   ELSE ok([name |-> "_FeatureConcat", children |-> <<>>, layers |-> layers],
                           SumSeq([k \in DOMAIN layers |-> output_filters[at(layers[k])]]),
                           RoutedIndices(i, layers), yolo_index)
          [] module.type = "shortcut" ->
               ok([name |-> "_WeightedFeatureFusion", children |-> <<>>,
                   layers |-> module.from], last, RoutedIndices(i, module.from), yolo_index)
          [] module.type = "yolo" ->
               IF yolo_index + 1 >= Len(YoloStrides)
               THEN err("IndexError")
               ELSE ok([name |-> "_YOLOLayer", children |-> <<>>, layers |-> <<>>,
                        stride |-> YoloStrides[yolo_index + 2]], filters, <<>>, yolo_index + 1)
          [] OTHER -> ok(Seq0, filters, <<>>, yolo_index)

\* Python's d[key] for the integer key 0: a record of the configuration is a
\* dict whose keys are all strings, so the subscript raises KeyError; a
\* sequence of modules returns its first element.
GetItem0(d) ==
    IF \A k \in DOMAIN d : k \in STRING THEN [error |-> "KeyError"]
    ELSE [error |-> "none", value |-> d[1]]

\* lines 459-471, the try block of the yolo branch.  module_define is the list
\* of configuration records that the loop enumerates.  The result is the
\* list of bias changes made (position of the changed block, the number of
\* anchors na, the increment of the objectness component in tenths and the
\* argument num / den of the logarithm added to the class components) and
\* whether the warning of line 471 is printed.
SmartBias(module_define, module, yolo_index) ==
    LET layers == IF "from" \in DOMAIN module THEN module.from ELSE <<>>
        na == Len(module.mask)
        num_classes == module.classes
        fail == [changes |-> <<>>, warning |-> TRUE]
        at == IF "from" \in DOMAIN module THEN PyIndex(yolo_index, Len(layers)) ELSE 1
        j == IF "from" \in DOMAIN module THEN (IF at = 0 THEN 0 ELSE layers[at]) ELSE -1
        pos == PyIndex(j, Len(module_define))
    IN  IF at = 0 \/ pos = 0 THEN fail
        ELSE LET item == GetItem0(module_define[pos])
             IN  IF item.error # "none" THEN fail
                 ELSE IF ~item.value.bias THEN fail
                 ELSE IF item.value.out_channels < (num_classes + 5) * na THEN fail
                 ELSE [changes |-> <<[position |-> pos, na |-> na, obj |-> -45,
                                      cls |-> <<60, 100 * num_classes - 99>>]>>,
                       warning |-> FALSE]

\* lines 483-487: routs_binary = [False] * (i + 1), then routs_binary[r] = True
\* for r in routs; 0 is returned for an index out of range (IndexError).
RoutsBinary(i, routs) ==
    IF \E k \in DOMAIN routs : PyIndex(routs[k], i + 1) = 0 THEN <<>>
    ELSE [p \in 1..(i + 1) |-> \E k \in DOMAIN routs : PyIndex(routs[k], i + 1) = p]

\* The frame of _create_modules at its first line (lines 363-370).
BuildFrame(md, gray) ==
    [pc |-> "loop", module_define |-> md, gray |-> gray, n |-> 0, i |-> 0,
     output_filters |-> IF gray THEN <<1>> ELSE <<3>>,
     module_list |-> <<>>, routs |-> <<>>, yolo_index |-> -1,
     filters |-> 3, routs_binary |-> <<>>, bias_changes |-> <<>>, warnings |-> 0]

\* lines 372-481, one iteration of the loop over module_define; n counts the
\* records taken and i is the loop variable.
LoopBody(b) ==
    LET i == b.n
        module == b.module_define[i + 1]
        r == LayerStep(module, i, b.output_filters, b.filters, b.yolo_index)
        sb == IF module.type = "yolo"
              THEN SmartBias(b.module_define, module, r.yolo_index)
              ELSE [changes |-> <<>>, warning |-> FALSE]
    IN  IF r.error # "none" THEN [b EXCEPT !.i = i, !.pc = r.error]
        ELSE [b EXCEPT !.i = i, !.n = @ + 1,
                       !.bias_changes = @ \o sb.changes,
                       !.warnings = @ + (IF sb.warning THEN 1 ELSE 0),
                       !.module_list = Append(@, r.modules),
                       !.output_filters = Append(@, r.filters),
                       !.filters = r.filters,
                       !.routs = @ \o r.routs,
                       !.yolo_index = r.yolo_index]

\* lines 483-489
LoopExit(b) ==
    LET rb == RoutsBinary(b.i, b.routs)
    IN  IF rb = <<>> THEN [b EXCEPT !.pc = "IndexError"]
        ELSE [b EXCEPT !.routs_binary = rb, !.pc = "done"]

\* _create_modules run to its end: the frame at its return or at its error.
RECURSIVE CreateModules(_)
CreateModules(b) ==
    IF b.pc # "loop" THEN b
    ELSE IF b.n < Len(b.module_define) THEN CreateModules(LoopBody(b))
    ELSE LoopExit(b)

BuildInit ==
    \E md \in SeqsOf(LayerRecords, 0, MaxLayers), gray \in BOOLEAN :
        build = BuildFrame(md, gray)

BuildLayer ==
    /\ build.pc = "loop"
    /\ build.n < Len(build.module_define)
    /\ build' = LoopBody(build)
    /\ OnlyBuild

BuildReturn ==
    /\ build.pc = "loop"
    /\ build.n = Len(build.module_define)
    /\ build' = LoopExit(build)
    /\ OnlyBuild

BuildNext == BuildLayer \/ BuildReturn

InitBuild == BuildInit /\ MixIdle /\ WffIdle /\ ParserIdle /\ FuserIdle /\ WtsIdle /\ TgtIdle /\ RestIdle

SpecBuild == InitBuild /\ [][BuildNext]_vars

\* The source indices of the module at position p (0-based) all resolve, in
\* the list of the p outputs computed before it, to an earlier position.
NoForwardReference(module_list) ==
    \A p \in DOMAIN module_list : \A k \in DOMAIN module_list[p].layers :
        PyIndex(module_list[p].layers[k], p - 1) # 0

\* C1: for every list of layer records, _create_modules completes without
\* error and returns a module list and a routing mask with one entry per
\* record each, and no module references a source index at or after its own
\* position.
BuildOneNodePerRecordNoForwardRefs ==
    /\ build.pc \notin {"TypeError", "ValueError", "IndexError"}
    /\ build.pc = "done" =>
         /\ Len(build.module_list) = Len(build.module_define)
         /\ Len(build.routs_binary) = Len(build.module_define)
         /\ NoForwardReference(build.module_list)

\* forward_once, lines 91-101: the module at position p (1-based) reads the
\* output of position q.  A _FeatureConcat or _WeightedFeatureFusion reads
\* out[l] for l in its layers, out holding the q - 1 outputs before it; a
\* _YOLOLayer reads the running tensor, the output of the module before it.
Consumes(module_list, p, q) ==
    \/ \E k \in DOMAIN module_list[p].layers :
          PyIndex(module_list[p].layers[k], p - 1) = q
    \/ module_list[p].name = "_YOLOLayer" /\ q = p - 1

\* C13: after construction the routing mask entry of a node is true if and
\* only if a later route, shortcut or detection head consumes its output.
BuildMaskIffConsumedLater ==
    build.pc = "done" =>
        \A q \in DOMAIN build.module_list :
            build.routs_binary[q] <=>
                \E p \in (q + 1)..Len(build.module_list) : Consumes(build.module_list, p, q)

\* The record types that a branch of lines 375-479 names.
KnownTypes ==
    {"convolutional", "BatchNorm2d", "maxpool", "upsample", "route", "shortcut",
     "reorg3d", "yolo", "dropout"}

\* C15: a record of unrecognized type does not abort construction; the module
\* at its position is an empty nn.Sequential, which returns its input, and
\* the channel count recorded for the position is the one recorded before it
\* (the input channels for the first position).
BuildUnknownKindIsIdentity ==
    \A p \in DOMAIN build.module_define :
        build.module_define[p].type \notin KnownTypes =>
            /\ ~(build.n = p - 1 /\ build.pc \in {"TypeError", "ValueError", "IndexError"})
            /\ build.n >= p =>
                 /\ build.module_list[p] = Seq0
                 /\ build.output_filters[p + 1] = build.output_filters[p]

\* The node (0-based) that the layer index l of the module at position i
\* (0-based) refers to in forward_once: out holds the outputs of the nodes
\* 0..i-1 when the module reads out[l] (lines 91-101, 244).
ReferredNode(i, l) == IF l < 0 THEN i + l ELSE l

\* C24: for a route node whose layer indices refer to earlier nodes, the
\* channel count recorded for it is the sum of the channel counts recorded
\* for the nodes referred to, for negative and non-negative indices alike
\* (0 included), and when construction returns the referred positions are
\* marked in the routing mask.
BuildRouteChannelsAreSumOfReferred ==
    \A p \in 1..build.n :
        LET module == build.module_define[p]
            i == p - 1
        IN  (/\ module.type = "route"
             /\ \A k \in DOMAIN module.layers :
                   ReferredNode(i, module.layers[k]) \in 0..(i - 1)) =>
                /\ build.output_filters[p + 1] =
                      SumSeq([k \in DOMAIN module.layers |->
                                build.output_filters[ReferredNode(i, module.layers[k]) + 2]])
                /\ build.pc = "done" =>
                      \A k \in DOMAIN module.layers :
                          build.routs_binary[ReferredNode(i, module.layers[k]) + 1]

\* C21: when a detection head is constructed at position p and the block
\* before it is a convolution whose bias has at least na * (classes + 5)
\* entries, the bias of that block is changed: -4.5 is added to the
\* objectness component and ln(0.6 / (classes - 0.99)) to the class
\* components of each anchor.
BuildSmartBiasChangesPrecedingConv ==
    \A p \in 2..build.n :
        LET module == build.module_define[p]
            before == build.module_list[p - 1]
        IN  (/\ module.type = "yolo"
             /\ before.name = "Sequential"
             /\ Len(before.children) > 0
             /\ before.children[1].name = "Conv2d"
             /\ before.children[1].bias
             /\ before.children[1].out_channels >= Len(module.mask) * (module.classes + 5)) =>
                \E k \in DOMAIN build.bias_changes :
                    build.bias_changes[k] =
                        [position |-> p - 1, na |-> Len(module.mask), obj |-> -45,
                         cls |-> <<60, 100 * module.classes - 99>>]

(***************************************************************************)
(* Darknet.fuse and _fuse_conv_and_bn, on the module list of a model that  *)
(* _create_modules has built.                                              *)
(***************************************************************************)

\* The models that construction yields: Darknet.__init__ returns only when
\* _create_modules has returned.
BuiltModels ==
    {b \in {CreateModules(BuildFrame(md, FALSE)) : md \in SeqsOf(LayerRecords, 0, MaxLayers)} :
        b.pc = "done"}

\* lines 775-797.  The fused convolution is nn.Conv2d(conv.in_channels,
\* conv.out_channels, kernel_size, stride, padding, bias=True), groups left at
\* 1; its weight is mm(w_bn, w_conv).view(fused_conv_bn.weight.size()), and
\* view raises RuntimeError when the element counts differ.
FuseConvAndBn(conv, bn) ==
    LET k == conv.kernel_size
        w_conv_numel == conv.out_channels * (conv.in_channels \div conv.groups) * k * k
        fused_numel == conv.out_channels * conv.in_channels * k * k
    IN  IF w_conv_numel # fused_numel THEN [error |-> "RuntimeError"]
        ELSE [error |-> "none",
              fused |-> [name |-> "Conv2d", in_channels |-> conv.in_channels,
                         out_channels |-> conv.out_channels, groups |-> 1,
                         bias |-> TRUE, kernel_size |-> k]]

\* lines 124-131: the children of a Sequential with its first BatchNorm2d
\* folded into the child before it.
FuseSequential(a) ==
    LET bns == {i \in DOMAIN a.children : a.children[i].name = "BatchNorm2d"}
    IN  IF bns = {} THEN [error |-> "none", a |-> a]
        ELSE LET i == CHOOSE i \in bns : \A j \in bns : i <= j
                 conv == a.children[IF i = 1 THEN Len(a.children) ELSE i - 1]
                 f == FuseConvAndBn(conv, a.children[i])
             IN  IF f.error # "none" THEN [error |-> f.error, a |-> a]
                 ELSE [error |-> "none",
                       a |-> [a EXCEPT !.children =
                                <<f.fused>> \o SubSeq(a.children, i + 1, Len(a.children))]]

FuserInit ==
    \E b \in BuiltModels :
        fuser = [pc |-> "loop", module_define |-> b.module_define,
                 module_list |-> b.module_list, n |-> 0, fused_list |-> <<>>]

\* lines 123-132, one iteration of the loop over the module list
FuseModule ==
    /\ fuser.pc = "loop"
    /\ fuser.n < Len(fuser.module_list)
    /\ LET a == fuser.module_list[fuser.n + 1]
           r == IF a.name = "Sequential" THEN FuseSequential(a) ELSE [error |-> "none", a |-> a]
       IN  fuser' = IF r.error # "none" THEN [fuser EXCEPT !.pc = r.error]
                    ELSE [fuser EXCEPT !.fused_list = Append(@, r.a), !.n = @ + 1]
    /\ OnlyFuser

\* line 133
FuseAssign ==
    /\ fuser.pc = "loop"
    /\ fuser.n = Len(fuser.module_list)
    /\ fuser' = [fuser EXCEPT !.module_list = fuser.fused_list, !.pc = "done"]
    /\ OnlyFuser

FuserNext == FuseModule \/ FuseAssign

InitFuser == FuserInit /\ MixIdle /\ WffIdle /\ ParserIdle /\ BuildIdle /\ WtsIdle /\ TgtIdle /\ RestIdle

SpecFuser == InitFuser /\ [][FuserNext]_vars

\* The nodes of a module list in the order the forward pass applies them: the
\* children of each Sequential, and each other module itself.
RECURSIVE Flatten(_)
Flatten(module_list) ==
    IF module_list = <<>> THEN <<>>
    ELSE LET a == module_list[1]
         IN  (IF a.name = "Sequential" THEN [c \in DOMAIN a.children |-> a.children[c].name]
              ELSE <<a.name>>) \o Flatten(Tail(module_list))

\* C8: fuse completes without error on every constructed graph, and afterwards
\* no normalization node immediately preceded by a convolution node remains.
FuseFoldsEveryConvBn ==
    /\ fuser.pc # "RuntimeError"
    /\ fuser.pc = "done" =>
         LET nodes == Flatten(fuser.module_list)
         IN  \A j \in 1..(Len(nodes) - 1) :
                ~(nodes[j] = "Conv2d" /\ nodes[j + 1] = "BatchNorm2d")

\* C28: after construction and after fuse, every position whose record is a
\* convolution with batch_normalize set holds a block with the convolution
\* at index 0 and a normalization at index 1, as load_darknet_weights and
\* save_darknet_weights read it (module[0], module[1]).
FuserKeepsConvBnBlocks ==
    \A p \in DOMAIN fuser.module_list :
        (fuser.module_define[p].type = "convolutional"
           /\ fuser.module_define[p].batch_normalize # 0) =>
            /\ Len(fuser.module_list[p].children) >= 2
            /\ fuser.module_list[p].children[1].name = "Conv2d"
            /\ fuser.module_list[p].children[2].name = "BatchNorm2d"

(***************************************************************************)
(* load_darknet_weights, save_darknet_weights and convert_model_weights.   *)
(* A darknet file is its header (version, seen) and its float stream, one  *)
(* integer per float.  The parameters of a model are, per position of the  *)
(* module list, the tensors of the block as flat sequences.                *)
(***************************************************************************)
WeightRecords ==
    {[type |-> "convolutional", batch_normalize |-> 1, filters |-> 1, size |-> <<1>>,
      mixed |-> FALSE, stride |-> 1, pad |-> 1, activation |-> "leaky"],
     [type |-> "convolutional", batch_normalize |-> 0, filters |-> 2, size |-> <<1>>,
      mixed |-> FALSE, stride |-> 1, pad |-> 1, activation |-> "linear"],
     [type |-> "maxpool", size |-> 2, stride |-> 2],
     [type |-> "yolo", classes |-> 1, mask |-> <<0, 1, 2>>]}

WeightModels ==
    {b \in {CreateModules(BuildFrame(md, FALSE)) : md \in SeqsOf(WeightRecords, 0, MaxLayers)} :
        b.pc = "done"}

Fields == <<"conv_weight", "conv_bias", "bn_bias", "bn_weight", "bn_mean", "bn_var">>

FieldNo(f) == CHOOSE j \in DOMAIN Fields : Fields[j] = f

\* .numel() of a tensor of the block a: conv = a[0], bn = a[1]
Numel(a, f) ==
    IF a.name # "Sequential" \/ a.children = <<>> \/ a.children[1].name # "Conv2d" THEN 0
    ELSE LET conv == a.children[1]
             k == conv.kernel_size
         IN  CASE f = "conv_weight" ->
                    conv.out_channels * (conv.in_channels \div conv.groups) * k * k
               [] f = "conv_bias" -> IF conv.bias THEN conv.out_channels ELSE 0
               [] OTHER -> IF Len(a.children) >= 2 /\ a.children[2].name = "BatchNorm2d"
                           THEN a.children[2].num_features ELSE 0

\* The parameters of a trained model: every element of every tensor has a
\* value of its own.
TrainedParams(module_list) ==
    [p \in DOMAIN module_list |->
        [f \in Range(Fields) |->
            [j \in 1..Numel(module_list[p], f) |-> 100 * p + 10 * FieldNo(f) + j]]]

\* The parameters of a model as Darknet(model_config) leaves them: BatchNorm2d
\* has weight 1, bias 0, running_mean 0, running_var 1; 0 stands for the
\* random values of the convolution.
FreshParams(module_list) ==
    [p \in DOMAIN module_list |->
        [f \in Range(Fields) |->
            [j \in 1..Numel(module_list[p], f) |->
                IF f \in {"bn_weight", "bn_var"} THEN 1 ELSE 0]]]

\* lines 53-54
FreshVersion == <<0, 2, 5>>
FreshSeen == 0

\* module_define[:cutoff]: the number of elements of the slice of a list of n
SliceLen(n, cutoff) == IF cutoff < 0 THEN Max(0, n + cutoff) ELSE Min(cutoff, n)

\* lines 631-641: the tensors save_darknet_weights writes for a block, in order
SaveOrder(batch_normalize) ==
    IF batch_normalize # 0
    THEN <<"bn_bias", "bn_weight", "bn_mean", "bn_var", "conv_weight">>
    ELSE <<"conv_bias", "conv_weight">>

\* LoadOrder with the weight of the normalization read before its bias.
LoadOrderWeightFirst(batch_normalize) ==
    IF batch_normalize # 0
    THEN <<"bn_weight", "bn_bias", "bn_mean", "bn_var", "conv_weight">>
    ELSE <<"conv_bias", "conv_weight">>

\* lines 566-591: the tensors load_darknet_weights reads for a block, in order
LoadOrder(batch_normalize) ==
    IF batch_normalize # 0
    THEN <<"bn_bias", "bn_weight", "bn_mean", "bn_var", "conv_weight">>
    ELSE <<"conv_bias", "conv_weight">>

RECURSIVE ConcatFields(_, _)
ConcatFields(order, prm) ==
    IF order = <<>> THEN <<>> ELSE prm[order[1]] \o ConcatFields(Tail(order), prm)

\* lines 627-641: the float stream of positions p..last
RECURSIVE SaveStream(_, _, _, _)
SaveStream(module_define, params, p, last) ==
    IF p > last THEN <<>>
    ELSE (IF module_define[p].type = "convolutional"
          THEN ConcatFields(SaveOrder(module_define[p].batch_normalize), params[p])
          ELSE <<>>) \o SaveStream(module_define, params, p + 1, last)

\* lines 622-641
SaveDarknetWeights(module_define, model, cutoff) ==
    [version |-> model.version, seen |-> model.seen,
     stream |-> SaveStream(module_define, model.params, 1,
                           SliceLen(Len(module_define), cutoff))]

\* lines 549-553
LoadCutoff(file_name, cutoff) ==
    IF file_name = "darknet53.conv.74" THEN 75
    ELSE IF file_name = "yolov3-tiny.conv.15" THEN 15
    ELSE cutoff

\* lines 566-591: copy the tensors of one block from weights[ptr:]; a slice
\* shorter than the tensor makes view_as raise RuntimeError, the tensors
\* copied before it stay copied.
RECURSIVE LoadFields(_, _, _, _, _)
LoadFields(order, prm, a, weights, ptr) ==
    IF order = <<>> THEN [error |-> "none", prm |-> prm, ptr |-> ptr]
    ELSE LET nb == Numel(a, order[1])
         IN  IF ptr + nb > Len(weights)
             THEN [error |-> "RuntimeError", prm |-> prm, ptr |-> ptr]
             ELSE LoadFields(Tail(order),
                             [prm EXCEPT ![order[1]] = SubSeq(weights, ptr + 1, ptr + nb)],
                             a, weights, ptr + nb)

\* lines 563-591, one iteration of the loop: the frame l of the load holds the
\* model, the stream, ptr, the position n and the length last of the slice.
LoadIteration(l) ==
    LET p == l.n + 1
        md == l.module_define[p]
    IN  IF md.type # "convolutional" THEN [l EXCEPT !.n = p]
        ELSE LET r == LoadFields(LoadOrder(md.batch_normalize), l.model.params[p],
                                 l.module_list[p], l.weights, l.ptr)
             IN  [l EXCEPT !.model.params[p] = r.prm, !.ptr = r.ptr,
                           !.n = IF r.error = "none" THEN p ELSE @,
                           !.error = r.error]

\* lines 545-562: load_darknet_weights before its loop, on the frame l that
\* holds the model to load into
LoadFrame(l, file, file_name, cutoff) ==
    [l EXCEPT !.model.version = file.version, !.model.seen = file.seen,
              !.weights = file.stream, !.ptr = 0, !.n = 0,
              !.last = SliceLen(Len(l.module_define), LoadCutoff(file_name, cutoff)),
              !.error = "none"]

\* load_darknet_weights run to its end or to its error
RECURSIVE LoadDarknetWeights(_)
LoadDarknetWeights(l) ==
    IF l.error # "none" \/ l.n >= l.last THEN l ELSE LoadDarknetWeights(LoadIteration(l))

\* Darknet(model_config)
FreshModel(module_list) ==
    [params |-> FreshParams(module_list), version |-> FreshVersion, seen |-> FreshSeen]

Cutoffs == {-1, 1, 2}
FileNames == {"yolov3.weights", "darknet53.conv.74", "yolov3-tiny.conv.15"}

\* The headers a darknet file or a model that has loaded one carries: the one
\* of a new model (lines 53-54) and one of a file trained elsewhere.
FileHeaders == {[version |-> <<0, 2, 5>>, seen |-> 0], [version |-> <<0, 2, 0>>, seen |-> 32]}

\* A trained model in memory and a complete darknet file of its graph on disk.
WtsInit ==
    \E b \in WeightModels, h \in FileHeaders, mh \in FileHeaders :
        wts = [pc |-> "start", module_define |-> b.module_define,
               module_list |-> b.module_list,
               model |-> [params |-> TrainedParams(b.module_list),
                          version |-> mh.version, seen |-> mh.seen],
               file |-> [version |-> h.version, seen |-> h.seen,
                         stream |-> SaveStream(b.module_define, TrainedParams(b.module_list),
                                               1, Len(b.module_define))],
               weights |-> <<>>, ptr |-> 0, n |-> 0, last |-> 0, error |-> "none",
               ckpt |-> <<>>, op |-> "none", saved |-> [params |-> <<>>], save_cutoff |-> 0,
               load_cutoff |-> 0, original |-> <<>>]

\* save_darknet_weights(model, path, cutoff)
WtsSave ==
    /\ wts.pc = "start"
    /\ \E cutoff \in Cutoffs :
         wts' = [wts EXCEPT !.file = SaveDarknetWeights(wts.module_define, wts.model, cutoff),
                            !.saved = wts.model, !.save_cutoff = cutoff,
                            !.op = "save", !.pc = "saved"]
    /\ OnlyWts

\* load_darknet_weights(model, path, cutoff) on a new model of the same graph,
\* lines 545-562
WtsLoadBegin ==
    /\ wts.pc \in {"start", "saved"}
    /\ \E cutoff \in Cutoffs, file_name \in FileNames :
         wts' = [LoadFrame([wts EXCEPT !.model = FreshModel(wts.module_list)],
                           wts.file, file_name, cutoff)
                 EXCEPT !.load_cutoff = LoadCutoff(file_name, cutoff),
                        !.op = IF wts.pc = "saved" THEN "load saved" ELSE "load",
                        !.pc = "loading"]
    /\ OnlyWts

\* lines 563-591, one iteration
WtsLoadIteration ==
    /\ wts.pc = "loading"
    /\ wts.n < wts.last
    /\ LET l == LoadIteration(wts)
       IN  wts' = [l EXCEPT !.pc = IF l.error = "none" THEN "loading" ELSE l.error]
    /\ OnlyWts

\* line 591, the end of the loop
WtsLoadReturn ==
    /\ wts.pc = "loading"
    /\ wts.n >= wts.last
    /\ wts' = [wts EXCEPT !.pc = "loaded"]
    /\ OnlyWts

\* convert_model_weights(cfg, "x.weights"), lines 653 and 662-674
WtsToTorch ==
    /\ wts.pc \in {"start", "saved"}
    /\ LET l == LoadDarknetWeights(
                  LoadFrame([wts EXCEPT !.model = FreshModel(wts.module_list)],
                            wts.file, "x.weights", -1))
       IN  wts' = IF l.error # "none" THEN [l EXCEPT !.op = "convert", !.pc = l.error]
                  ELSE [l EXCEPT !.ckpt = l.model.params, !.original = wts.file,
                                 !.op = "convert", !.pc = "torch"]
    /\ OnlyWts

\* convert_model_weights(cfg, "x.pth.tar"), lines 653-660
WtsToDarknet ==
    /\ wts.pc = "torch"
    /\ LET model == [FreshModel(wts.module_list) EXCEPT !.params = wts.ckpt]
       IN  wts' = [wts EXCEPT !.model = model,
                              !.file = SaveDarknetWeights(wts.module_define, model, -1),
                              !.pc = "roundtrip"]
    /\ OnlyWts

WtsNext ==
    WtsSave \/ WtsLoadBegin \/ WtsLoadIteration \/ WtsLoadReturn \/ WtsToTorch \/ WtsToDarknet

InitWts == WtsInit /\ MixIdle /\ WffIdle /\ ParserIdle /\ BuildIdle /\ FuserIdle /\ TgtIdle /\ RestIdle

SpecWts == InitWts /\ [][WtsNext]_vars

\* C2: converting a darknet file to the torch format and back reproduces the
\* original file exactly, header and float stream.
WtsRoundTripIsIdentity ==
    wts.pc = "roundtrip" => wts.file = wts.original

\* C3: loading a file written by save, with the same cutoff, into a model of
\* the same graph does not fail, restores every parameter of the convolution
\* blocks before the cutoff to its saved value, restores the header, and ends
\* with the read pointer at the end of the stream.
WtsLoadRestoresSaved ==
    (wts.op = "load saved" /\ wts.load_cutoff = wts.save_cutoff /\ wts.pc # "loading") =>
        /\ wts.pc = "loaded"
        /\ wts.ptr = Len(wts.file.stream)
        /\ wts.model.version = wts.saved.version /\ wts.model.seen = wts.saved.seen
        /\ \A p \in 1..SliceLen(Len(wts.module_define), wts.save_cutoff) :
             wts.module_define[p].type = "convolutional" =>
                wts.model.params[p] = wts.saved.params[p]

\* A file holding a block with a normalization node and a block without one
\* has been saved and loaded back with the same cutoff.
WtsBothLayoutsLoaded ==
    /\ wts.op = "load saved" /\ wts.load_cutoff = wts.save_cutoff /\ wts.pc = "loaded"
    /\ wts.saved.version # FreshVersion
    /\ \E p, q \in 1..SliceLen(Len(wts.module_define), wts.save_cutoff) :
         /\ wts.module_define[p].type = "convolutional"
         /\ wts.module_define[q].type = "convolutional"
         /\ wts.module_define[p].batch_normalize = 1
         /\ wts.module_define[q].batch_normalize = 0

\* C14: a load that fails because the stream is too short for the blocks
\* before the cutoff leaves the model as it was before the call: no
\* parameter, version or seen value is modified.
WtsFailedLoadLeavesModelUntouched ==
    (wts.op \in {"load", "load saved"} /\ wts.pc = "RuntimeError") =>
        wts.model = FreshModel(wts.module_list)

\* C22: with the default cutoff of -1, save writes and load reads the
\* parameters of every convolution block of the graph, one in the last
\* position included.
WtsDefaultCutoffCoversEveryConv ==
    /\ (wts.pc = "saved" /\ wts.save_cutoff = -1) =>
          wts.file.stream = SaveStream(wts.module_define, wts.model.params,
                                       1, Len(wts.module_define))
    /\ (wts.pc = "loaded" /\ wts.op = "load" /\ wts.load_cutoff = -1) =>
          \A p \in DOMAIN wts.module_define :
              wts.module_define[p].type = "convolutional" =>
                  wts.model.params[p] = TrainedParams(wts.module_list)[p]

(***************************************************************************)
(* bbox_iou and wh_iou.  Coordinates are small integers, so every sum and  *)
(* product of the source is exact in float32; a quotient is kept as the    *)
(* pair <<numerator, denominator>>.  Corner coordinates are held in half   *)
(* units, so that x - w / 2 is an integer.  The constant 1e-16 is below    *)
(* half an ulp of every positive area here: v + 1e-16 is v for v > 0 and   *)
(* 1e-16 for v = 0.                                                        *)
(***************************************************************************)
MaxCoord == 2
MaxSide == 2

RatSub(a, b) == <<a[1] * b[2] - b[1] * a[2], a[2] * b[2]>>
RatLeq(a, b) == a[1] * b[2] <= b[1] * a[2]
RatEq(a, b) == a[1] * b[2] = b[1] * a[2]

\* lines 874-881: the corners of a box, in half units
Corners(box, x1y1x2y2) ==
    IF x1y1x2y2
    THEN [x1 |-> 2 * box[1], y1 |-> 2 * box[2], x2 |-> 2 * box[3], y2 |-> 2 * box[4]]
    ELSE [x1 |-> 2 * box[1] - box[3], x2 |-> 2 * box[1] + box[3],
          y1 |-> 2 * box[2] - box[4], y2 |-> 2 * box[2] + box[4]]

\* The enclosing box taken to be the first box.
ConvexOfFirst(b1, b2) == [cw |-> b1.x2 - b1.x1, ch |-> b1.y2 - b1.y1]

\* lines 893-894: width and height of the smallest enclosing box
Convex(b1, b2) ==
    [cw |-> Max(b1.x2, b2.x2) - Min(b1.x1, b2.x1),
     ch |-> Max(b1.y2, b2.y2) - Min(b1.y1, b2.y1)]

\* lines 869-898 and 912, for one box2 and without d_iou and c_iou
bbox_iou(box1, box2, x1y1x2y2, g_iou) ==
    LET b1 == Corners(box1, x1y1x2y2)
        b2 == Corners(box2, x1y1x2y2)
        inter == Max(Min(b1.x2, b2.x2) - Max(b1.x1, b2.x1), 0)
                 * Max(Min(b1.y2, b2.y2) - Max(b1.y1, b2.y1), 0)
        w1 == b1.x2 - b1.x1
        h1 == b1.y2 - b1.y1
        w2 == b2.x2 - b2.x1
        h2 == b2.y2 - b2.y1
        \* union is this value when it is positive and 1e-16 when it is 0
        union == w1 * h1 + w2 * h2 - inter
        iou == IF union = 0 THEN <<0, 1>> ELSE <<inter, union>>
        c == Convex(b1, b2)
        \* c_area is this value when it is positive and 1e-16 when it is 0
        c_area == c.cw * c.ch
        \* (c_area - union) / c_area
        excess == IF c_area = 0 THEN <<0, 1>>
                  ELSE IF union = 0 THEN <<1, 1>>
                  ELSE <<c_area - union, c_area>>
    IN  IF g_iou THEN RatSub(iou, excess) ELSE iou

\* wh_iou with the first area alone as the union.
wh_iou_first(wh1, wh2) ==
    [i \in DOMAIN wh1 |-> [j \in DOMAIN wh2 |->
        <<Min(wh1[i][1], wh2[j][1]) * Min(wh1[i][2], wh2[j][2]), wh1[i][1] * wh1[i][2]>>]]

\* lines 1004-1018: the N x M matrix of wh1 (N x 2) against wh2 (M x 2)
wh_iou(wh1, wh2) ==
    [i \in DOMAIN wh1 |-> [j \in DOMAIN wh2 |->
        LET inter == Min(wh1[i][1], wh2[j][1]) * Min(wh1[i][2], wh2[j][2])
        IN  <<inter, wh1[i][1] * wh1[i][2] + wh2[j][1] * wh2[j][2] - inter>>]]

\* torch.atan(w / h) of line 907 for non-negative w and h: the quotient is
\* w / h for h > 0, inf for h = 0 < w and nan for 0 / 0.
Aspect(w, h) ==
    [kind |-> IF h # 0 THEN "finite" ELSE IF w # 0 THEN "inf" ELSE "nan", w |-> w, h |-> h]

\* v of line 907 is 0: the two arctangents are equal.
SameAspect(a, b) ==
    \/ a.kind = "finite" /\ b.kind = "finite" /\ a.w * b.h = b.w * a.h
    \/ a.kind = "inf" /\ b.kind = "inf"

\* The paths of bbox_iou: plain, g_iou, d_iou and c_iou.
IouPaths == {"iou", "g_iou", "d_iou", "c_iou"}

\* The divisions by a computed value that bbox_iou performs on a path, in
\* order: the line, whether the denominator has 1e-16 added in the source
\* and whether the denominator is 0.
BboxIouDivisions(box1, box2, x1y1x2y2, path) ==
    LET b1 == Corners(box1, x1y1x2y2)
        b2 == Corners(box2, x1y1x2y2)
        inter == Max(Min(b1.x2, b2.x2) - Max(b1.x1, b2.x1), 0)
                 * Max(Min(b1.y2, b2.y2) - Max(b1.y1, b2.y1), 0)
        w1 == b1.x2 - b1.x1
        h1 == b1.y2 - b1.y1
        w2 == b2.x2 - b2.x1
        h2 == b2.y2 - b2.y1
        union == w1 * h1 + w2 * h2 - inter
        iou_is_one == union # 0 /\ inter = union
        v_is_zero == SameAspect(Aspect(w2, h2), Aspect(w1, h1))
        div(line, epsilon, zero) == [line |-> line, epsilon |-> epsilon, zero |-> zero]
        \* lines 890 and 892: union = (w1 * h1 + 1e-16) + w2 * h2 - inter
        d892 == div(892, TRUE, FALSE)
        \* lines 897-898: c_area = cw * ch + 1e-16
        d898 == div(898, TRUE, FALSE)
        \* lines 901, 905 and 910: c2 = cw ** 2 + ch ** 2 + 1e-16
        d905 == div(905, TRUE, FALSE)
        d910 == div(910, TRUE, FALSE)
        \* line 907: w2 / h2 and w1 / h1
        d907a == div(907, FALSE, h2 = 0)
        d907b == div(907, FALSE, h1 = 0)
        \* line 909: v / (1 - iou + v)
        d909 == div(909, FALSE, iou_is_one /\ v_is_zero)
    IN  CASE path = "iou" -> <<d892>>
          [] path = "g_iou" -> <<d892, d898>>
          [] path = "d_iou" -> <<d892, d905>>
          [] path = "c_iou" -> <<d892, d907a, d907b, d909, d910>>

\* The divisions of wh_iou, one for each entry of the matrix (line 1018).
WhIouDivisions(wh1, wh2) ==
    [i \in DOMAIN wh1 |-> [j \in DOMAIN wh2 |->
        [line |-> 1018, epsilon |-> FALSE, zero |-> wh_iou(wh1, wh2)[i][j][2] = 0]]]

\* Boxes of non-negative width and height, as corners and as centre and size.
CornerBoxes ==
    {<<x1, y1, x2, y2>> : x1 \in 0..MaxCoord, y1 \in 0..MaxCoord,
                          x2 \in 0..MaxCoord, y2 \in 0..MaxCoord}
    \ {b \in (0..MaxCoord) \X (0..MaxCoord) \X (0..MaxCoord) \X (0..MaxCoord) :
         b[3] < b[1] \/ b[4] < b[2]}
CentreBoxes == (0..MaxCoord) \X (0..MaxCoord) \X (0..MaxCoord) \X (0..MaxCoord)

\* Anchor shapes are positive (they come from the configuration); a target
\* may have a side of length 0.
AnchorShapes == (1..MaxSide) \X (1..MaxSide)
TargetShapes == (0..MaxSide) \X (0..MaxSide)

MetricInit ==
    \/ \E x1y1x2y2 \in BOOLEAN :
         \E box1 \in (IF x1y1x2y2 THEN CornerBoxes ELSE CentreBoxes),
            box2 \in (IF x1y1x2y2 THEN CornerBoxes ELSE CentreBoxes) :
             metric = [pc |-> "boxes", box1 |-> box1, box2 |-> box2,
                       x1y1x2y2 |-> x1y1x2y2, iou |-> <<>>, giou |-> <<>>,
                       divisions |-> <<>>]
    \/ \E wh1 \in SeqsOf(AnchorShapes, 1, 2), wh2 \in SeqsOf(TargetShapes, 0, 2) :
             metric = [pc |-> "shapes", wh1 |-> wh1, wh2 |-> wh2, ab |-> <<>>, ba |-> <<>>,
                       calls |-> 0]

\* bbox_iou(box1, box2, x1y1x2y2)
BboxIouPlain ==
    /\ metric.pc = "boxes"
    /\ metric.iou = <<>>
    /\ metric' = [metric EXCEPT !.iou = bbox_iou(metric.box1, metric.box2, metric.x1y1x2y2, FALSE)]
    /\ OnlyMetric

\* bbox_iou(box1, box2, x1y1x2y2, g_iou=True), as compute_loss calls it (line 847)
BboxIouGeneralized ==
    /\ metric.pc = "boxes"
    /\ metric.giou = <<>>
    /\ metric' = [metric EXCEPT !.giou = bbox_iou(metric.box1, metric.box2, metric.x1y1x2y2, TRUE)]
    /\ OnlyMetric

\* bbox_iou(box1, box2, x1y1x2y2) on one of its paths, for its divisions
BboxIouDivides ==
    /\ metric.pc = "boxes"
    /\ metric.divisions = <<>>
    /\ \E path \in IouPaths :
         metric' = [metric EXCEPT !.divisions =
                      BboxIouDivisions(metric.box1, metric.box2, metric.x1y1x2y2, path)]
    /\ OnlyMetric

\* wh_iou(a, b)
WhIouCall ==
    /\ metric.pc = "shapes"
    /\ metric.calls < 2
    /\ metric.ab = <<>>
    /\ metric' = [metric EXCEPT !.ab = wh_iou(metric.wh1, metric.wh2), !.calls = @ + 1]
    /\ OnlyMetric

\* wh_iou(b, a)
WhIouSwapped ==
    /\ metric.pc = "shapes"
    /\ metric.calls < 2
    /\ metric.ba = <<>>
    /\ metric' = [metric EXCEPT !.ba = wh_iou(metric.wh2, metric.wh1), !.calls = @ + 1]
    /\ OnlyMetric

MetricNext == BboxIouPlain \/ BboxIouGeneralized \/ BboxIouDivides \/ WhIouCall \/ WhIouSwapped

InitMetric ==
    /\ MetricInit /\ YoloIdle /\ AugIdle /\ FwdIdle /\ LossIdle
    /\ MixIdle /\ WffIdle /\ ParserIdle /\ BuildIdle /\ FuserIdle /\ WtsIdle /\ TgtIdle

SpecMetric == InitMetric /\ [][MetricNext]_vars

MetricBothIous == metric.pc = "boxes" /\ metric.iou # <<>> /\ metric.giou # <<>>

\* C16: for two boxes of non-negative width and height the generalized IoU
\* is at most the IoU of the same pair.
MetricGiouAtMostIou ==
    MetricBothIous => RatLeq(metric.giou, metric.iou)

\* Both values have been computed for two boxes that overlap without one
\* holding the other, and the generalized IoU is strictly the smaller.
MetricGiouBelowIouReached ==
    /\ MetricBothIous
    /\ metric.iou[1] > 0
    /\ ~RatLeq(metric.iou, metric.giou)

\* C17: the generalized IoU of a box with itself is 1, a box of width or
\* height 0 included.
MetricGiouOfSelfIsOne ==
    (MetricBothIous /\ metric.box1 = metric.box2) => RatEq(metric.giou, <<1, 1>>)

\* C18: entry (i, j) of wh_iou(a, b) equals entry (j, i) of wh_iou(b, a).
MetricWhIouSymmetric ==
    (metric.pc = "shapes" /\ metric.calls = 2) =>
        \A i \in DOMAIN metric.wh1 : \A j \in DOMAIN metric.wh2 :
            metric.ab[i][j] = metric.ba[j][i]

\* Both matrices have been computed for two anchors and one target, and an
\* entry lies strictly between 0 and 1.
MetricWhIouBothOrdersReached ==
    /\ metric.pc = "shapes" /\ metric.calls = 2
    /\ Len(metric.wh1) = 2 /\ Len(metric.wh2) = 1
    /\ \E i \in DOMAIN metric.wh1 :
         metric.ab[i][1][1] > 0 /\ metric.ab[i][1][1] < metric.ab[i][1][2]

\* C30: every division by a computed value in bbox_iou (plain, g_iou, d_iou
\* and c_iou paths) and in wh_iou has 1e-16 added to its denominator, and no
\* such division has a denominator of 0, boxes and shapes of area 0 included.
MetricEveryDivisionHasEpsilon ==
    /\ metric.pc = "boxes" =>
         \A k \in DOMAIN metric.divisions :
             metric.divisions[k].epsilon /\ ~metric.divisions[k].zero
    /\ (metric.pc = "shapes" /\ metric.ab # <<>>) =>
         \A i \in DOMAIN metric.wh1 : \A j \in DOMAIN metric.wh2 :
             LET d == WhIouDivisions(metric.wh1, metric.wh2)[i][j]
             IN  d.epsilon /\ ~d.zero

(***************************************************************************)
(* _YOLOLayer: the state of one detection head and its forward calls,      *)
(* without onnx_export.  A call is a frame of its own; two frames stand    *)
(* for two threads that call the same head.  A tensor p is its spatial     *)
(* shape <<rows, columns>> and the logits of one (anchor, cell).  A logit  *)
(* is -1, 0 or 1 for -ln 3, 0 and ln 3, whose sigmoids are 1/4, 1/2 and    *)
(* 3/4 (Sigmoid4 quarters).                                                *)
(***************************************************************************)
MaxCalls == 3
Threads == {1, 2}
GridShapes == {<<1, 1>>, <<1, 2>>, <<2, 1>>, <<2, 2>>}
Logits == {-1, 1}

\* lines 178-191: create_grids((nx, ny)); the grid is its shape <<ny, nx>>
CreateGrids(layer, nx, ny) ==
    [layer EXCEPT !.nx = nx, !.ny = ny,
                  !.grid = IF ~layer.training THEN <<ny, nx>> ELSE layer.grid]

\* lines 137-172: the head after construction; <<>> is None
YoloLayer(num_classes, training) ==
    [nx |-> 0, ny |-> 0, grid |-> <<>>, training |-> training, num_classes |-> num_classes]

\* a + grid assigned into a slice of shape v: each dimension of the grid is
\* that of v or 1
Broadcasts(grid, v) == \A d \in 1..2 : grid[d] = v[d] \/ grid[d] = 1

\* line 226: torch.sigmoid_(io[..., 4:]) on the objectness and class logits
Decode(layer, obj, cls) ==
    [obj |-> <<Sigmoid4(obj), 4>>,
     cls |-> [k \in DOMAIN cls |-> <<Sigmoid4(cls[k]), 4>>]]

\* lines 202-203: the reshaped raw tensor of a call, its objectness and class
\* logits as fractions, in the storage it has after view, permute and
\* contiguous.
Reshaped(obj, cls) ==
    [storage |-> 1, obj |-> <<obj, 1>>, cls |-> [k \in DOMAIN cls |-> <<cls[k], 1>>]]

\* io = p without the copy: io shares the storage of p.
CloneSharing(p) == p

\* line 222: p.clone(), the values of p in a storage of its own
Clone(p) == [p EXCEPT !.storage = @ + 1]

\* lines 223-226 write into io; a tensor that shares the storage of io holds
\* the written values afterwards.
WrittenThrough(t, io) == IF t.storage = io.storage THEN io ELSE t

YoloInit ==
    \E num_classes \in {1, 2}, training \in BOOLEAN, obj \in Logits :
      \E cls \in [1..num_classes -> Logits] :
        yolo = [layer |-> YoloLayer(num_classes, training),
                obj |-> obj, cls |-> cls, count |-> 0,
                calls |-> [t \in Threads |-> Idle]]

YoloRunning(t) == yolo.calls[t].pc \in {"shape", "view", "decode"}

\* forward(p), line 197: bs, _, ny, nx = p.shape
YoloEnter(t) ==
    /\ ~YoloRunning(t)
    /\ yolo.count < MaxCalls
    /\ \E shape \in GridShapes :
         yolo' = [yolo EXCEPT !.count = @ + 1,
                              !.calls[t] = [pc |-> "shape", ny |-> shape[1], nx |-> shape[2],
                                            view |-> <<>>, grid |-> <<>>, out |-> <<>>,
                                            p |-> <<>>, io |-> <<>>,
                                            training |-> FALSE]]
    /\ OnlyYolo

\* lines 198-199
YoloCheckGrid(t) ==
    /\ yolo.calls[t].pc = "shape"
    /\ LET c == yolo.calls[t]
       IN  yolo' = [yolo EXCEPT !.calls[t].pc = "view",
                                !.layer = IF <<@.nx, @.ny>> # <<c.nx, c.ny>>
                                          THEN CreateGrids(@, c.nx, c.ny) ELSE @]
    /\ OnlyYolo

\* lines 202-206: p.view(bs, na, no, self.ny, self.nx), then the return of
\* the training mode
YoloView(t) ==
    /\ yolo.calls[t].pc = "view"
    /\ LET c == yolo.calls[t]
           l == yolo.layer
       IN  yolo' = [yolo EXCEPT !.calls[t] =
                      IF l.ny * l.nx # c.ny * c.nx THEN [c EXCEPT !.pc = "RuntimeError"]
                      ELSE [c EXCEPT !.view = <<l.ny, l.nx>>, !.training = l.training,
                                     !.p = Reshaped(yolo.obj, yolo.cls),
                                     !.pc = IF l.training THEN "returned" ELSE "decode"]]
    /\ OnlyYolo

\* lines 222-228: the inference output
YoloDecode(t) ==
    /\ yolo.calls[t].pc = "decode"
    /\ LET c == yolo.calls[t]
           l == yolo.layer
           decoded == Decode(l, yolo.obj, yolo.cls)
           io == [Clone(c.p) EXCEPT !.obj = decoded.obj, !.cls = decoded.cls]
       IN  yolo' = [yolo EXCEPT !.calls[t] =
                      IF l.grid = <<>> THEN [c EXCEPT !.pc = "TypeError"]
                      ELSE IF ~Broadcasts(l.grid, c.view) THEN [c EXCEPT !.pc = "RuntimeError"]
                      ELSE [c EXCEPT !.grid = l.grid, !.out = decoded,
                                     !.io = io, !.p = WrittenThrough(c.p, io),
                                     !.pc = "returned"]]
    /\ OnlyYolo

\* model.train() / model.eval() between two calls
YoloSetMode ==
    /\ \A t \in Threads : ~YoloRunning(t)
    /\ yolo.count < MaxCalls
    /\ yolo' = [yolo EXCEPT !.layer.training = ~@]
    /\ OnlyYolo

\* One caller: the calls follow one another.
YoloNext ==
    \/ YoloEnter(1) \/ YoloCheckGrid(1) \/ YoloView(1) \/ YoloDecode(1)
    \/ YoloSetMode

\* Two callers in inference mode.
YoloNextConcurrent ==
    \E t \in Threads : YoloEnter(t) \/ YoloCheckGrid(t) \/ YoloView(t) \/ YoloDecode(t)

InitYolo ==
    /\ YoloInit /\ MetricIdle /\ AugIdle /\ FwdIdle /\ LossIdle
    /\ MixIdle /\ WffIdle /\ ParserIdle /\ BuildIdle /\ FuserIdle /\ WtsIdle /\ TgtIdle

InitYoloConcurrent == InitYolo /\ ~yolo.layer.training

SpecYolo == InitYolo /\ [][YoloNext]_vars

SpecYoloConcurrent == InitYoloConcurrent /\ [][YoloNextConcurrent]_vars

YoloFailed(t) == yolo.calls[t].pc \in {"RuntimeError", "TypeError"}

YoloInferenceReturned(t) == yolo.calls[t].pc = "returned" /\ ~yolo.calls[t].training

\* C12: no forward call changes the grid dimensions or the offset grid of
\* the head, and each of two concurrent calls ends decoded with the grid
\* dimensions of its own input.
YoloForwardLeavesHeadAlone ==
    /\ [][yolo'.layer = yolo.layer]_vars
    /\ [](\A t \in Threads :
            /\ ~YoloFailed(t)
            /\ YoloInferenceReturned(t) =>
                 /\ yolo.calls[t].view = <<yolo.calls[t].ny, yolo.calls[t].nx>>
                 /\ yolo.calls[t].grid = <<yolo.calls[t].ny, yolo.calls[t].nx>>)

\* C19: with more than one class every class score of an inference call is
\* sigmoid(class logit) * sigmoid(objectness logit); with one class it is
\* sigmoid(class logit).
YoloClassScoreTimesObjectness ==
    YoloInferenceReturned(1) =>
        \A k \in DOMAIN yolo.cls :
            RatEq(yolo.calls[1].out.cls[k],
                  IF yolo.layer.num_classes > 1
                  THEN <<Sigmoid4(yolo.cls[k]) * Sigmoid4(yolo.obj), 16>>
                  ELSE <<Sigmoid4(yolo.cls[k]), 4>>)

\* C20: whatever calls and mode changes came before, an inference call does
\* not fail and decodes with an offset grid whose shape is that of its input.
YoloInferenceGridMatchesInput ==
    /\ ~YoloFailed(1)
    /\ YoloInferenceReturned(1) =>
         yolo.calls[1].grid = <<yolo.calls[1].ny, yolo.calls[1].nx>>

\* C27: the raw tensor that a forward call of the head returns, alone in
\* training mode and beside the decoded output in inference mode, holds the
\* values of the reshaped input.
YoloRawValuesUnaltered ==
    \A t \in Threads :
        yolo.calls[t].pc = "returned" =>
            /\ yolo.calls[t].p.obj = <<yolo.obj, 1>>
            /\ yolo.calls[t].p.cls = [k \in DOMAIN yolo.cls |-> <<yolo.cls[k], 1>>]

\* An inference call has returned a decoded output that differs from the raw
\* tensor it returns with it, after a call in training mode.
YoloDecodedBesideRaw ==
    /\ YoloInferenceReturned(1)
    /\ yolo.count > 1
    /\ yolo.calls[1].io.obj # yolo.calls[1].p.obj
    /\ yolo.calls[1].io.cls # yolo.calls[1].p.cls

(***************************************************************************)
(* Darknet.forward with augment=True, in inference mode and without        *)
(* onnx_export.  A tensor is its spatial shape <<rows, columns>>; the      *)
(* output of a pass is its number of rows of candidates, na * ny * nx per  *)
(* head.  The graphs are chains (no route, no shortcut).                   *)
(***************************************************************************)
ImageSides == {1, 2, 32, 64, 96}

AugRecords ==
    {[type |-> "convolutional", batch_normalize |-> 1, filters |-> 2, size |-> <<3>>,
      mixed |-> FALSE, stride |-> 2, pad |-> 1, activation |-> "leaky"],
     [type |-> "convolutional", batch_normalize |-> 0, filters |-> 18, size |-> <<1>>,
      mixed |-> FALSE, stride |-> 1, pad |-> 1, activation |-> "linear"],
     [type |-> "maxpool", size |-> 2, stride |-> 2],
     [type |-> "upsample", stride |-> 2],
     [type |-> "yolo", classes |-> 1, mask |-> <<0, 1, 2>>]}

\* floor((n + 2 * padding - k) / stride) + 1, the output length of nn.Conv2d
\* and nn.MaxPool2d
OutLen(n, k, stride, padding) == ((n + 2 * padding - k) \div stride) + 1

\* The shape after the module built from record m (lines 375-424), or <<>>
\* when torch raises because an output side would be less than 1.
ModuleShape(m, hw) ==
    LET k == IF m.type = "convolutional" THEN m.size[1] ELSE m.size
        padding == IF m.type = "convolutional" THEN (IF m.pad # 0 THEN k \div 2 ELSE 0)
                   ELSE (k - 1) \div 2
        out == [d \in 1..2 |-> OutLen(hw[d], k, m.stride, padding)]
    IN  CASE m.type = "upsample" -> <<hw[1] * m.stride, hw[2] * m.stride>>
          [] m.type = "maxpool" /\ m.size = 2 /\ m.stride = 1 -> hw
          [] m.type \in {"convolutional", "maxpool"} ->
               IF out[1] < 1 \/ out[2] < 1 THEN <<>> ELSE out
          [] OTHER -> hw

\* lines 87-101 of forward_once from position p on, with the running shape
\* hw and the candidates of the heads so far; b is the frame _create_modules
\* returned.  A head views its input as (bs, na, no, ny, nx) (line 202).
RECURSIVE ForwardLayers(_, _, _, _)
ForwardLayers(b, p, hw, yolo_out) ==
    IF p > Len(b.module_define) THEN [error |-> "none", yolo_out |-> yolo_out]
    ELSE LET m == b.module_define[p]
         IN  IF m.type = "yolo"
             THEN IF b.output_filters[p + 1] # Len(m.mask) * (m.classes + 5)
                  THEN [error |-> "RuntimeError", yolo_out |-> yolo_out]
                  ELSE ForwardLayers(b, p + 1, hw,
                                     Append(yolo_out, Len(m.mask) * hw[1] * hw[2]))
             ELSE LET out == ModuleShape(m, hw)
                  IN  IF out = <<>> THEN [error |-> "RuntimeError", yolo_out |-> yolo_out]
                      ELSE ForwardLayers(b, p + 1, out, yolo_out)

\* forward_once(x)[0] in inference mode (lines 110-117): the outputs of the
\* heads concatenated along dimension 1; x, p = zip(*yolo_out) needs a head.
ForwardOnce(b, hw) ==
    LET r == ForwardLayers(b, 1, hw, <<>>)
    IN  IF r.error # "none" THEN [error |-> r.error, rows |-> 0]
        ELSE IF r.yolo_out = <<>> THEN [error |-> "ValueError", rows |-> 0]
        ELSE [error |-> "none", rows |-> SumSeq(r.yolo_out)]

\* line 73: torch.cat(y, 1)
Cat(y) == SumSeq(y)

\* lines 739-761, _scale_image(image, ratio, same_shape=False) with ratio =
\* num / 100: the shape of the result, or <<>> when interpolate raises for
\* an output size of 0.
ScaleImage(hw, num) ==
    LET s == [d \in 1..2 |-> (hw[d] * num) \div 100]
        gs == 64
    IN  IF s[1] = 0 \/ s[2] = 0 THEN <<>>
        ELSE [d \in 1..2 |-> ((hw[d] * num + 100 * gs - 1) \div (100 * gs)) * gs]

\* The graphs that run on a 64 x 64 image.
AugModels ==
    {b \in {CreateModules(BuildFrame(md, FALSE)) : md \in SeqsOf(AugRecords, 1, MaxLayers)} :
        b.pc = "done" /\ ForwardOnce(b, <<64, 64>>).error = "none"}

AugInit ==
    \E b \in AugModels, h \in ImageSides, w \in ImageSides :
        aug = [pc |-> "scale", model |-> b, image_size |-> <<h, w>>, s |-> <<83, 67>>,
               xs |-> <<>>, y |-> <<>>, out |-> 0]

\* lines 66-67: the tuple of the three inputs
AugScale ==
    /\ aug.pc = "scale"
    /\ LET x1 == ScaleImage(aug.image_size, aug.s[1])
           x2 == ScaleImage(aug.image_size, aug.s[2])
       IN  aug' = IF x1 = <<>> \/ x2 = <<>> THEN [aug EXCEPT !.pc = "RuntimeError"]
                  ELSE [aug EXCEPT !.xs = <<aug.image_size, x1, x2>>, !.pc = "passes"]
    /\ OnlyAug

\* line 68: y.append(self.forward_once(xi)[0])
AugPass ==
    /\ aug.pc = "passes"
    /\ Len(aug.y) < Len(aug.xs)
    /\ LET r == ForwardOnce(aug.model, aug.xs[Len(aug.y) + 1])
       IN  aug' = IF r.error # "none" THEN [aug EXCEPT !.pc = r.error]
                  ELSE [aug EXCEPT !.y = Append(@, r.rows)]
    /\ OnlyAug

\* lines 70-74: the boxes of y[1] and y[2] are scaled back in place, then
\* torch.cat(y, 1)
AugCat ==
    /\ aug.pc = "passes"
    /\ Len(aug.y) = Len(aug.xs)
    /\ aug' = [aug EXCEPT !.out = Cat(aug.y), !.pc = "done"]
    /\ OnlyAug

AugNext == AugScale \/ AugPass \/ AugCat

InitAug ==
    /\ AugInit /\ MetricIdle /\ YoloIdle /\ FwdIdle /\ LossIdle
    /\ MixIdle /\ WffIdle /\ ParserIdle /\ BuildIdle /\ FuserIdle /\ WtsIdle /\ TgtIdle

SpecAug == InitAug /\ [][AugNext]_vars

\* C11: forward with augment=True returns as many candidates as the passes
\* on the original, the flipped 0.83 and the 0.67 image decode together, and
\* it does not fail when a pass has no candidate (an image or feature map
\* with no cell).
AugReturnsSumOfPasses ==
    /\ aug.pc \notin {"RuntimeError", "ValueError"}
    /\ aug.pc = "done" =>
         aug.out = ForwardOnce(aug.model, aug.image_size).rows
                   + ForwardOnce(aug.model, ScaleImage(aug.image_size, 83)).rows
                   + ForwardOnce(aug.model, ScaleImage(aug.image_size, 67)).rows

(***************************************************************************)
(* Darknet.forward_once without augment and without onnx_export, node by   *)
(* node.  A tensor is the node that computed it (0 for the input image),   *)
(* its number of channels and its spatial shape; the placeholder [] that   *)
(* the rolling list holds for a node that is not routed is Placeholder.    *)
(***************************************************************************)
FwdRecords ==
    {m \in LayerRecords :
        \/ m.type \in {"upsample", "route", "shortcut", "yolo"}
        \/ m.type = "convolutional" /\ ~m.mixed /\ "groups" \notin DOMAIN m}

\* The models that construction yields from these records.
FwdModels ==
    {b \in {CreateModules(BuildFrame(md, FALSE)) : md \in SeqsOf(FwdRecords, 0, MaxLayers)} :
        b.pc = "done"}

Placeholder == [node |-> -1, channels |-> 0, hw |-> <<>>]

\* The head run as an ordinary module, x = module(x).
RunHeadAsModule(p, md, x) ==
    IF x = Placeholder THEN [error |-> "AttributeError", x |-> x, yolo_out |-> <<>>]
    ELSE IF x.channels # Len(md.mask) * (md.classes + 5)
    THEN [error |-> "RuntimeError", x |-> x, yolo_out |-> <<>>]
    ELSE [error |-> "none", x |-> [node |-> p, channels |-> md.classes + 5, hw |-> x.hw],
          yolo_out |-> <<>>]

\* _YOLOLayer.forward on the running tensor x with p.view(bs, na, no, ny, nx)
\* (line 202) returned as the entry of the head: view raises when the
\* channels of x are not na * no.  The running tensor is not assigned.
RunHead(p, md, x) ==
    IF x = Placeholder THEN [error |-> "AttributeError", x |-> x, yolo_out |-> <<>>]
    ELSE IF x.channels # Len(md.mask) * (md.classes + 5)
    THEN [error |-> "RuntimeError", x |-> x, yolo_out |-> <<>>]
    ELSE [error |-> "none", x |-> x,
          yolo_out |-> <<[node |-> p, input |-> x.node, na |-> Len(md.mask),
                          hw |-> x.hw]>>]

\* lines 91-99: the module at position p (1-based) of the model b applied to
\* the running tensor x and the rolling list out.  The result is the error
\* raised, if any, the running tensor after the module, the reads of the
\* rolling list (index read, position found, entry found) and the entries
\* appended to yolo_out.
RunModule(b, p, x, out) ==
    LET module == b.module_list[p]
        md == b.module_define[p]
        ok(t, reads) == [error |-> "none", x |-> t, reads |-> reads, yolo_out |-> <<>>]
        err(e) == [error |-> e, x |-> x, reads |-> <<>>, yolo_out |-> <<>>]
        at(l) == PyIndex(l, Len(out))
        layers == module.layers
        reads == [k \in DOMAIN layers |->
                    [node |-> p, index |-> layers[k], position |-> at(layers[k]),
                     entry |-> out[at(layers[k])]]]
        shape == ModuleShape(md, x.hw)
    IN  CASE module.name = "_WeightedFeatureFusion" ->
               \* lines 326-337: x.shape, then outputs[self.layers[i]] and
               \* a.shape for each layer, then the sum
               IF x = Placeholder THEN err("AttributeError")
               ELSE IF \E k \in DOMAIN layers : at(layers[k]) = 0 THEN err("IndexError")
               ELSE IF \E k \in DOMAIN layers : out[at(layers[k])] = Placeholder
               THEN err("AttributeError")
               ELSE IF \E k \in DOMAIN layers : out[at(layers[k])].hw # x.hw
               THEN err("RuntimeError")
               ELSE ok([node |-> p, channels |-> x.channels, hw |-> x.hw], reads)
          [] module.name = "_FeatureConcat" ->
               \* line 244: the entry itself for one layer, torch.cat for more
               IF \E k \in DOMAIN layers : at(layers[k]) = 0 THEN err("IndexError")
               ELSE IF Len(layers) = 1 THEN ok(out[at(layers[1])], reads)
               ELSE IF \E k \in DOMAIN layers : out[at(layers[k])] = Placeholder
               THEN err("TypeError")
               ELSE IF \E k \in DOMAIN layers : out[at(layers[k])].hw # out[at(layers[1])].hw
               THEN err("RuntimeError")
               ELSE ok([node |-> p,
                        channels |-> SumSeq([k \in DOMAIN layers |-> out[at(layers[k])].channels]),
                        hw |-> out[at(layers[1])].hw], reads)
          [] module.name = "_YOLOLayer" ->
               LET r == RunHead(p, md, x)
               IN  [error |-> r.error, x |-> r.x, reads |-> <<>>, yolo_out |-> r.yolo_out]
          [] module.name = "Sequential" /\ module.children = <<>> -> ok(x, <<>>)
          [] module.name = "Sequential"
               /\ module.children # <<>>
               /\ module.children[1].name \in {"Conv2d", "MixConv2d"} ->
               IF x = Placeholder THEN err("TypeError")
               ELSE IF x.channels # module.children[1].in_channels \/ shape = <<>>
               THEN err("RuntimeError")
               ELSE ok([node |-> p, channels |-> module.children[1].out_channels,
                        hw |-> shape], <<>>)
          [] module.name = "BatchNorm2d" ->
               IF x = Placeholder THEN err("AttributeError")
               ELSE IF x.channels # b.output_filters[p + 1] THEN err("RuntimeError")
               ELSE ok([node |-> p, channels |-> x.channels, hw |-> x.hw], <<>>)
          [] OTHER ->
               \* nn.Upsample, nn.MaxPool2d and the padded max pooling
               IF x = Placeholder THEN err("AttributeError")
               ELSE IF shape = <<>> THEN err("RuntimeError")
               ELSE ok([node |-> p, channels |-> x.channels, hw |-> shape], <<>>)

\* The positions of the detection heads of a module list, in graph order.
HeadPositions(module_list) ==
    LET IsHead(p) == module_list[p].name = "_YOLOLayer"
    IN  SelectSeq([p \in DOMAIN module_list |-> p], IsHead)

\* lines 81-82: a 3-channel image of 4 x 4 pixels enters the model.
FwdInit ==
    \E b \in FwdModels, training \in BOOLEAN :
        fwd = [pc |-> "loop", model |-> b, training |-> training, i |-> 0,
               x |-> [node |-> 0, channels |-> 3, hw |-> <<4, 4>>],
               out |-> <<>>, yolo_out |-> <<>>, reads |-> <<>>]

\* lines 90-101: one iteration of the loop over module_list
FwdNode ==
    /\ fwd.pc = "loop"
    /\ fwd.i < Len(fwd.model.module_list)
    /\ LET p == fwd.i + 1
           r == RunModule(fwd.model, p, fwd.x, fwd.out)
       IN  fwd' = IF r.error # "none" THEN [fwd EXCEPT !.pc = r.error]
                  ELSE [fwd EXCEPT
                          !.i = p,
                          !.x = r.x,
                          !.yolo_out = @ \o r.yolo_out,
                          !.reads = @ \o r.reads,
                          !.out = Append(@, IF fwd.model.routs_binary[p] THEN r.x
                                            ELSE Placeholder)]
    /\ OnlyFwd

\* lines 103-117: yolo_out is returned in training mode; in inference mode
\* x, p = zip(*yolo_out) needs a head.
FwdReturn ==
    /\ fwd.pc = "loop"
    /\ fwd.i = Len(fwd.model.module_list)
    /\ fwd' = IF ~fwd.training /\ fwd.yolo_out = <<>> THEN [fwd EXCEPT !.pc = "ValueError"]
              ELSE [fwd EXCEPT !.pc = "done"]
    /\ OnlyFwd

FwdNext == FwdNode \/ FwdReturn

InitFwd ==
    /\ FwdInit /\ MetricIdle /\ YoloIdle /\ AugIdle /\ LossIdle
    /\ MixIdle /\ WffIdle /\ ParserIdle /\ BuildIdle /\ FuserIdle /\ WtsIdle /\ TgtIdle

SpecFwd == InitFwd /\ [][FwdNext]_vars

\* C25: every read of the rolling list that a route or shortcut node makes
\* finds the entry of an earlier node, the node that _create_modules marked
\* for the index, and the entry is the retained output of that node and not
\* the placeholder; the rolling list has one entry per executed node.
FwdReadsResolveToRetained ==
    fwd.pc # "idle" =>
        /\ Len(fwd.out) = fwd.i
        /\ \A k \in DOMAIN fwd.reads :
             LET r == fwd.reads[k]
             IN  /\ r.position \in 1..(r.node - 1)
                 /\ r.position = ReferredNode(r.node - 1, r.index) + 1
                 /\ fwd.model.routs_binary[r.position]
                 /\ r.entry # Placeholder
                 /\ fwd.out[r.position] = r.entry

\* forward_once has returned after a read through a negative index and a
\* read through a non-negative index, with a placeholder in the rolling list.
FwdBothIndexKindsRead ==
    /\ fwd.pc = "done"
    /\ \E k \in DOMAIN fwd.reads : fwd.reads[k].index < 0
    /\ \E k \in DOMAIN fwd.reads : fwd.reads[k].index >= 0
    /\ \E q \in DOMAIN fwd.out : fwd.out[q] = Placeholder

\* C26, the step: a detection-head node leaves the running tensor as it was
\* and appends one entry, its own, to yolo_out.
FwdHeadStep ==
    (/\ fwd.pc = "loop"
     /\ fwd'.pc = "loop"
     /\ fwd'.i = fwd.i + 1
     /\ fwd.model.module_list[fwd'.i].name = "_YOLOLayer") =>
        /\ fwd'.x = fwd.x
        /\ Len(fwd'.yolo_out) = Len(fwd.yolo_out) + 1
        /\ fwd'.yolo_out[Len(fwd'.yolo_out)].node = fwd'.i
        /\ SubSeq(fwd'.yolo_out, 1, Len(fwd.yolo_out)) = fwd.yolo_out

\* C26: a detection-head node leaves the running tensor seen by the nodes
\* after it unchanged and appends exactly one entry to yolo_out, and in
\* training mode the list returned has one entry per detection-head node, in
\* graph order.
FwdHeadKeepsRunningTensor ==
    /\ [][FwdHeadStep]_vars
    /\ []((fwd.pc = "done" /\ fwd.training) =>
            [k \in DOMAIN fwd.yolo_out |-> fwd.yolo_out[k].node]
                = HeadPositions(fwd.model.module_list))

\* forward_once has returned in training mode from a model with two heads,
\* the second one after the first.
FwdTwoHeadsReturned ==
    /\ fwd.pc = "done"
    /\ fwd.training
    /\ Len(fwd.yolo_out) = 2
    /\ fwd.yolo_out[2].input = fwd.yolo_out[1].input

(***************************************************************************)
(* compute_loss.  The predictions and the targets enter through what the   *)
(* criteria make of them: for each head the number nb of matches that      *)
(* build_targets returned, the GIoU term (1 - giou).mean(), the            *)
(* objectness term BCEobj(pi[..., 4], tobj) and the class term             *)
(* BCEcls(ps[:, 5:], t), in whole units of loss.                           *)
(***************************************************************************)
MaxTerm == 2

HeadTerms == [nb : {0, 1}, box : 0..MaxTerm, obj : 0..MaxTerm, cls : 0..MaxTerm]

\* hyper_parameters_dict["giou"], ["obj"] and ["cls"]
LossGains == {[giou |-> 1, obj |-> 1, cls |-> 1], [giou |-> 3, obj |-> 5, cls |-> 2]}

\* The class branch taken for every head with a match.
AddsClassTermAlways(num_classes, nb) == nb > 0

\* lines 838 and 853: the class term of a head is added when the head has a
\* match and the model has more than one class.
AddsClassTerm(num_classes, nb) == nb > 0 /\ num_classes > 1

\* lines 814-817 and 835
LossInit ==
    \E num_classes \in {1, 2}, hp \in LossGains, heads \in SeqsOf(HeadTerms, 1, 2) :
        loss = [pc |-> "loop", num_classes |-> num_classes,
                hyper_parameters_dict |-> hp, heads |-> heads, i |-> 0,
                lbox |-> 0, lobj |-> 0, lcls |-> 0, result |-> <<>>]

\* lines 836-858: one iteration of the loop over the heads
LossHead ==
    /\ loss.pc = "loop"
    /\ loss.i < Len(loss.heads)
    /\ LET h == loss.heads[loss.i + 1]
       IN  loss' = [loss EXCEPT
                      !.i = @ + 1,
                      !.lbox = IF h.nb > 0 THEN @ + h.box ELSE @,
                      !.lcls = IF AddsClassTerm(loss.num_classes, h.nb) THEN @ + h.cls ELSE @,
                      !.lobj = @ + h.obj]
    /\ OnlyLoss

\* lines 860-866: the gains, the sum and the vector (lbox, lobj, lcls, loss)
LossReturn ==
    /\ loss.pc = "loop"
    /\ loss.i = Len(loss.heads)
    /\ LET lbox == loss.lbox * loss.hyper_parameters_dict.giou
           lobj == loss.lobj * loss.hyper_parameters_dict.obj
           lcls == loss.lcls * loss.hyper_parameters_dict.cls
       IN  loss' = [loss EXCEPT !.lbox = lbox, !.lobj = lobj, !.lcls = lcls,
                                !.result = <<lbox, lobj, lcls, lbox + lobj + lcls>>,
                                !.pc = "done"]
    /\ OnlyLoss

LossNext == LossHead \/ LossReturn

InitLoss ==
    /\ LossInit /\ MetricIdle /\ YoloIdle /\ AugIdle /\ FwdIdle
    /\ MixIdle /\ WffIdle /\ ParserIdle /\ BuildIdle /\ FuserIdle /\ WtsIdle /\ TgtIdle

SpecLoss == InitLoss /\ [][LossNext]_vars

\* The sum of the class terms of the heads that have a match.
LossClassTerms(heads) ==
    SumSeq([k \in DOMAIN heads |-> IF heads[k].nb > 0 THEN heads[k].cls ELSE 0])

\* C29: the class component of the vector that compute_loss returns is 0
\* for a model with one class, whatever the class terms of the heads are, and
\* the weighted sum of the class terms of the matched heads for a model with
\* more classes; the total component is the sum of the box, objectness and
\* class components.
LossClassTermOnlyForMultiClass ==
    loss.pc = "done" =>
        /\ loss.num_classes = 1 => loss.result[3] = 0
        /\ loss.num_classes > 1 =>
             loss.result[3] = loss.hyper_parameters_dict.cls * LossClassTerms(loss.heads)
        /\ loss.result[4] = loss.result[1] + loss.result[2] + loss.result[3]

\* compute_loss has returned for a model with one class whose matched heads
\* have class terms above 0, with box and objectness components above 0.
LossSingleClassReturned ==
    /\ loss.pc = "done"
    /\ loss.num_classes = 1
    /\ LossClassTerms(loss.heads) > 0
    /\ loss.result[1] > 0
    /\ loss.result[2] > 0

====
